---- MODULE Spec2Model ----
(***************************************************************************)
(* Model of the data pipeline of the Arena Jockey dashboard                *)
(* (src/app.py load_data and main, and the chart functions of              *)
(* src/index.py and src/graficos).  Each part of the pipeline has its own  *)
(* specification over the variables it uses; the other variables stay at   *)
(* their initial value.                                                    *)
(*                                                                         *)
(* A text is a sequence of one-character strings, so that padding and      *)
(* comparison of texts are computed character by character.  A table cell  *)
(* is a record [k, s]: k = "str" with the text s, k = "nan" for a blank    *)
(* cell (float NaN) and k = "none" for Python None.                        *)
(***************************************************************************)
EXTENDS Integers, Sequences, FiniteSets, TLC

VARIABLES
    cpf,    \* the tax-ID column in load_data:
            \*   table  "bilhetes" or "cred", the table the column belongs to
            \*   raw    the column as read from the sheet
            \*   col    the column as load_data holds it
            \*   once   the column after the first normalization
            \*   pc     "raw", "normalized" (after load_data), "renormalized"
    ld      \* one row through the date and age steps of load_data:
            \*   eventRaw, birthRaw, dataRaw  the cells "TDL Event Date",
            \*       "TDL Customer Birth Date" and staffing "DATA" as read
            \*   event, birth, data  the same cells after load_data
            \*   idade, faixa        bilhetes["Idade"], bilhetes["Faixa Etária"]
            \*   pc     "read", "loaded" (load_data returned), "raised"

VARIABLES
    mn      \* load_data and main seen through the columns of the two tables:
            \*   cols      the column names of the ticketing table
            \*   credCols  the column names of the staffing table
            \*   filters   the filter widgets main has created
            \*   line      the source line of the KeyError raised, else 0
            \*   pc        "read", "loaded", "done" (main returned), "aborted"

VARIABLES
    xr      \* the event-by-date cross-reference of load_data:
            \*   bilhetes  the ticket rows [date, event], in row order
            \*   credData  the staffing column "DATA", in row order
            \*   mapa      mapa_data_evento, a function from dates to events
            \*   cred      the staffing rows [data, evento] after the mapping
            \*   pc        "read", "mapped", "annotated"

VARIABLES
    ag      \* one run of main over the loaded ticketing table:
            \*   bilhetes  the ticket rows [event, date, cpf, tickets, net,
            \*       tipo, faixa]
            \*   evento_sel  the events chosen in the "Evento" multiselect
            \*   pizza_sel   the choice of the ticket-type selectbox
            \*   df_b      the filtered rows
            \*   recorrentes, ranking, pizza, faixas, idades  what the run
            \*       shows: [shown, den, groups], groups a function from the
            \*       group key to [qty, pct] (the ranking adds medio)
            \*   metricas  the headline metrics of the run
            \*   vendas    the tickets per day: [shown, por_dia]
            \*   info      the displays that showed an st.info message
            \*   pc        "loaded" (the script is about to run), "shown"

VARIABLES
    gh      \* one call of load_file_from_github:
            \*   url       the address requested
            \*   response  "ok", "http_error" (raise_for_status raises) or
            \*             "no_response" (requests.get raises)
            \*   content   the body of the response: [len, head], its length
            \*             and its first bytes (at most four)
            \*   requests  the number of requests issued
            \*   errors    the st.error lines shown, in order
            \*   file_obj  the BytesIO returned: [content, pos]
            \*   pc        "call", "returned", "raised"

VARIABLES
    ch      \* a session of reruns of main over st.cache_data:
            \*   source    the version of the files in the remote repository
            \*   cache     the entry of load_data: [version, bilhetes, cred],
            \*             version 0 when there is no entry
            \*   loads     how many times the body of load_data has run
            \*   requests  how many requests load_data has issued
            \*   runs      how many times main has run
            \*   start     the tables load_data() gave to the last run
            \*   bilhetes, cred  the tables of the last run after its derived
            \*             columns; df_b its filtered ticket rows
            \*   evento_sel  the events chosen in the last run
            \*   evento_cred_sel, df_c  the events chosen in the staffing
            \*             tab in the last run and its filtered staffing rows
            \*   pc        "start", "shown" (a run has ended), "changed" (the
            \*             remote files changed after the last run)

VARIABLES
    tb      \* the values of the tables load_data returns:
            \*   bilhetesRaw  the ticket rows [tickets, net] as read
            \*   cred_2025, desm_2024  the staffing rows [categoria, cpf] of
            \*             the two sheets as read
            \*   bilhetes, cred  the tables returned; a staffing row is
            \*             [categoria, cpf, qtd, origem]
            \*   pc        "read", "loaded", "raised"

VARIABLES
    sf      \* the staffing sheets through load_data and the staffing tab:
            \*   cred_2025, desm_2024  the two sheets as read: [has_qtd, rows],
            \*             a row is [categoria, funcao1, funcao2, qtd]
            \*   cred      the stacked table load_data returns; a row adds origem
            \*   cat_sel, origem_sel  the choices of the multiselects
            \*             "Categoria" and "Ano/Evento"
            \*   df_c      the filtered staffing rows
            \*   total     the metric "Total de credenciamentos"
            \*   pc        "read", "loaded", "shown"

VARIABLES
    gm      \* one polygon of a choropleth map and one aggregated row:
            \*   fn        "brasil", "rj" or "ras", the map function called
            \*   field     the column of the boundary file that holds the name
            \*   boundary  the name of the polygon in the boundary file
            \*   agg       the name of the aggregated row (state, city or RA)
            \*   other_match  whether another aggregated row equals the name of
            \*             another polygon character by character
            \*   joined    whether the merge gave the row's tickets to the polygon
            \*   pc        "call", "drawn"

VARIABLES
    dg      \* the gender chart of analise_demografica:
            \*   df_b      the filtered ticket rows [salutation, tickets]
            \*   genero_count  the groups of the chart, a function from the
            \*             gender to the sum of its tickets
            \*   pc        "call", "shown"

VARIABLES
    tu      \* one row through classificar_origem of analise_turismo_por_periodo:
            \*   uf_google, state, country  the cells "uf_google",
            \*             "TDL Customer State" and "TDL Customer Country" of
            \*             the row (k = "absent" when the table has no such
            \*             column)
            \*   origem    the value of "Origem_Classificada"
            \*   pc        "call", "classified"

VARIABLES
    ft      \* the filters of the ticketing tab of main:
            \*   bilhetes  the ticket rows [event, date, pais, tickets]; a date
            \*             is [k, day, late]: k = "ts" with the day and whether
            \*             the time of day is after midnight, or k = "nat"
            \*   evento_sel, pais_sel  the choices of the multiselects
            \*   periodo   what st.date_input returned: <<>> for None, <<ini>>
            \*             while the user picks a range, <<ini, fim>>
            \*   df_b      the filtered rows
            \*   pc        "loaded", "filtered"

VARIABLES
    rc      \* the recurrence chart of analise_comportamento_compra:
            \*   df_b      the filtered ticket rows [cpf, event]
            \*   dist_recorrencia  the rows of the chart, a function from the
            \*             band (or NaN) to its number of customers
            \*   shown     whether the chart was drawn
            \*   pc        "call", "done"

VARIABLES
    cl      \* analise_clusters_clientes after the outlier removal:
            \*   n         len(features_clientes_filtered), the customers left
            \*   K_range   the numbers of clusters fitted for the elbow chart
            \*   slider    the arguments of st.slider: [min_value, max_value,
            \*             value]
            \*   n_clusters  the number handed to the final KMeans, 0 if none
            \*   pc        "call", "warned" (insufficient data), "raised"
            \*             (st.slider rejected its arguments), "clustered"

vars == <<cpf, ld, mn, xr, ag, gh, ch, tb, sf, gm, dg, tu, ft, rc, cl>>

(***************************************************************************)
(* Texts and cells                                                         *)
(***************************************************************************)
Digits == {"0", "1", "2", "3", "4", "5", "6", "7", "8", "9"}

StrCell(s) == [k |-> "str", s |-> s]
NaNCell == [k |-> "nan", s |-> <<>>]
NoneCell == [k |-> "none", s |-> <<>>]

IsNull(c) == c.k # "str"

TxtNan == <<"n", "a", "n">>
TxtNone == <<"N", "o", "n", "e">>
TxtNaN == <<"N", "a", "N">>
TxtEmpty == <<>>

AsTypeStrNA(c) ==
    IF c.k = "str" THEN c ELSE StrCell(<<"<", "N", "A", ">">>)

\* str(x) of one cell: the cast of Series.astype(str)
AsTypeStr(c) ==
    CASE c.k = "str" -> c
      [] c.k = "nan" -> StrCell(TxtNan)
      [] c.k = "none" -> StrCell(TxtNone)

CpfSentinelsWithoutNan == {TxtNone, TxtNaN, TxtEmpty}

\* the list ['nan', 'None', 'NaN', ''] of the replace call and of the lambda
CpfSentinels == {TxtNan, TxtNone, TxtNaN, TxtEmpty}

\* Series.replace(['nan', 'None', 'NaN', ''], None), one cell
ReplaceSentinels(c) ==
    IF c.k = "str" /\ c.s \in CpfSentinels THEN NoneCell ELSE c

CpfWidth == 11

Zeros(n) == [i \in 1..n |-> "0"]

ZFillNoPad(s, width) == s

\* Python str.zfill(width): a text of width or more characters is returned as
\* it is; otherwise zeros are inserted on the left, after a leading sign.
ZFill(s, width) ==
    IF Len(s) >= width THEN s
    ELSE IF Len(s) > 0 /\ Head(s) \in {"+", "-"}
         THEN <<Head(s)>> \o Zeros(width - Len(s)) \o Tail(s)
         ELSE Zeros(width - Len(s)) \o s

\* lambda x: x.zfill(11) if x is not None and x not in [...] else None
PadCpf(c) ==
    IF c.k # "none" /\ ~(c.k = "str" /\ c.s \in CpfSentinels)
    THEN StrCell(ZFill(c.s, CpfWidth))
    ELSE NoneCell

\* load_data, ticketing column "TDL Customer CPF": cast, replace, pad
NormalizeBilhetesCpf(col) ==
    LET cast == [i \in DOMAIN col |-> AsTypeStr(col[i])]
        replaced == [i \in DOMAIN cast |-> ReplaceSentinels(cast[i])]
    IN [i \in DOMAIN replaced |-> PadCpf(replaced[i])]

\* load_data, staffing columns whose name contains "CPF": the object column
\* is cast with the other object columns, then replaced and padded
NormalizeCredCpf(col) ==
    LET cast == [i \in DOMAIN col |-> AsTypeStr(col[i])]
        replaced == [i \in DOMAIN cast |-> ReplaceSentinels(cast[i])]
    IN [i \in DOMAIN replaced |-> PadCpf(replaced[i])]

NormalizeCpf(table, col) ==
    IF table = "bilhetes" THEN NormalizeBilhetesCpf(col) ELSE NormalizeCredCpf(col)

(***************************************************************************)
(* Inputs of the tax-ID normalization                                      *)
(***************************************************************************)
MaxRows == 2

CpfAlphabet == {"7", "A", "-"}

\* lengths of the short texts
ShortLens == 0..2

SeqsUpTo(S, n) == UNION {[1..m -> S] : m \in 0..n}

ShortTexts == UNION {[1..m -> CpfAlphabet] : m \in ShortLens}

\* tails of nines that bring a short text to 9..12 characters
TailLens == {9, 10}

Nines(n) == [i \in 1..n |-> "9"]

CpfTexts ==
    ShortTexts \cup {s \o Nines(n) : s \in ShortTexts, n \in TailLens}
               \cup {TxtNan, TxtNone, TxtNaN}

CpfCells == {StrCell(s) : s \in CpfTexts} \cup {NaNCell, NoneCell}

CpfColumns == SeqsUpTo(CpfCells, MaxRows)

CpfIdle == [table |-> "bilhetes", raw |-> <<>>, col |-> <<>>, once |-> <<>>, pc |-> "idle"]

CpfStart ==
    {[table |-> tbl, raw |-> c, col |-> c, once |-> <<>>, pc |-> "raw"] :
        tbl \in {"bilhetes", "cred"}, c \in CpfColumns}

\* load_data normalizes the column of the table it has read
LoadCpf ==
    /\ cpf.pc = "raw"
    /\ LET out == NormalizeCpf(cpf.table, cpf.col)
       IN cpf' = [cpf EXCEPT !.col = out, !.once = out, !.pc = "normalized"]
    /\ UNCHANGED <<ld, mn, xr, ag, gh, ch, tb, sf, gm, dg, tu, ft, rc, cl>>

\* the same steps applied again to the normalized column
ReloadCpf ==
    /\ cpf.pc = "normalized"
    /\ cpf' = [cpf EXCEPT !.col = NormalizeCpf(cpf.table, cpf.col), !.pc = "renormalized"]
    /\ UNCHANGED <<ld, mn, xr, ag, gh, ch, tb, sf, gm, dg, tu, ft, rc, cl>>

CpfNext == LoadCpf \/ ReloadCpf

(***************************************************************************)
(* load_data: dates, age and age bracket                                   *)
(*                                                                         *)
(* A date cell is [k, v]: k = "date" with v the number of days from the    *)
(* date to the day of the load (negative for a date in the future),        *)
(* k = "nan" for a blank cell, k = "text" for a value that is no date.     *)
(* A parsed date is k = "date" or k = "nat".  A number cell is k = "int"   *)
(* or k = "nan"; a label cell is k = "label" with the label l, or "nan".   *)
(***************************************************************************)
DateCell(d) == [k |-> "date", v |-> d]
BlankDate == [k |-> "nan", v |-> 0]
BadDate == [k |-> "text", v |-> 0]
NaT == [k |-> "nat", v |-> 0]

IntCell(n) == [k |-> "int", v |-> n]
NaNNumber == [k |-> "nan", v |-> 0]

LabelCell(l) == [k |-> "label", l |-> l]
NaNLabel == [k |-> "nan", l |-> ""]

\* pd.to_datetime(col) with the default errors="raise": TRUE when it raises
ToDatetimeRaises(c) == c.k = "text"

\* pd.to_datetime(col): the parsed cell, for a cell that parses or is blank
ToDatetime(c) == IF c.k = "date" THEN c ELSE NaT

\* pd.to_datetime(col, errors="coerce")
ToDatetimeCoerce(c) == IF c.k = "date" THEN c ELSE NaT

DaysPerYear == 365

\* (pd.Timestamp.now() - birth).dt.days // 365, a floor division
Idade(birth) ==
    IF birth.k = "date" THEN IntCell(birth.v \div DaysPerYear) ELSE NaNNumber

AgeBins == <<0, 18, 25, 35, 45, 55, 65, 100>>

AgeLabels == <<"Menor de 18", "18-24", "25-34", "35-44", "45-54", "55-64", "65+">>

\* pd.cut(x, bins, labels) with its defaults right=True, include_lowest=False:
\* the label of the interval (bins[i], bins[i+1]] that holds x, else NaN
PdCut(x, bins, labels) ==
    IF x.k = "int" /\ \E i \in 1..Len(labels) : bins[i] < x.v /\ x.v <= bins[i + 1]
    THEN LabelCell(labels[CHOOSE i \in 1..Len(labels) : bins[i] < x.v /\ x.v <= bins[i + 1]])
    ELSE NaNLabel

MaxAge == 102

\* birth dates on the first and on the last day of each year of age, and one
\* in the future
BirthDays == {a * DaysPerYear + o : a \in 0..MaxAge, o \in {0, DaysPerYear - 1}} \cup {-1}

EventDays == {0, 1}

LdIdle ==
    [eventRaw |-> BlankDate, birthRaw |-> BlankDate, dataRaw |-> BlankDate,
     event |-> NaT, birth |-> NaT, data |-> NaT,
     idade |-> NaNNumber, faixa |-> NaNLabel, pc |-> "idle"]

LdStart ==
    {[LdIdle EXCEPT !.eventRaw = e, !.birthRaw = b, !.dataRaw = d, !.pc = "read"] :
        e \in {DateCell(x) : x \in EventDays} \cup {BlankDate, BadDate},
        b \in {DateCell(x) : x \in BirthDays} \cup {BlankDate, BadDate},
        d \in {DateCell(x) : x \in EventDays} \cup {BlankDate, BadDate}}

\* load_data stops at the first statement that raises
load_data_raises ==
    /\ ld.pc = "read"
    /\ ToDatetimeRaises(ld.eventRaw)
    /\ ld' = [ld EXCEPT !.pc = "raised"]
    /\ UNCHANGED <<cpf, mn, xr, ag, gh, ch, tb, sf, gm, dg, tu, ft, rc, cl>>

\* load_data runs to its return statement
load_data_returns ==
    /\ ld.pc = "read"
    /\ ~ToDatetimeRaises(ld.eventRaw)
    /\ LET birth == ToDatetimeCoerce(ld.birthRaw)
           idade == Idade(birth)
       IN ld' = [ld EXCEPT !.event = ToDatetime(ld.eventRaw),
                           !.birth = birth,
                           !.idade = idade,
                           !.faixa = PdCut(idade, AgeBins, AgeLabels),
                           !.data = ToDatetimeCoerce(ld.dataRaw),
                           !.pc = "loaded"]
    /\ UNCHANGED <<cpf, mn, xr, ag, gh, ch, tb, sf, gm, dg, tu, ft, rc, cl>>

LdNext == load_data_raises \/ load_data_returns

(***************************************************************************)
(* load_data and main: presence of the expected columns                    *)
(***************************************************************************)
ColEvent == "TDL Event"
ColEventDate == "TDL Event Date"
ColCpf == "TDL Customer CPF"
ColBirth == "TDL Customer Birth Date"
ColTickets == "TDL Sum Tickets (B+S-A)"
ColNetPrice == "TDL Sum Ticket Net Price (B+S-A)"
ColCountry == "TDL Customer Country"
ColPriceCategory == "TDL Price Category"
ColBairro == "WEB Customer Address Extension 3 - Bairro"

ExpectedCols ==
    {ColEvent, ColEventDate, ColCpf, ColBirth, ColTickets, ColNetPrice,
     ColCountry, ColPriceCategory, ColBairro}

ExpectedCredCols == {"DATA", "QTD", "ETAPA", "CATEGORIA", "EMPRESA", "CPF"}

\* load_data on the ticketing table: every step tests the presence of its
\* column; the birth date gives the columns "Idade" and "Faixa Etária"
LoadBilhetesCols(cols) ==
    cols \cup (IF ColBirth \in cols THEN {"Idade", "Faixa Etária"} ELSE {})

\* load_data on the staffing table: QTD and ORIGEM are added, EVENTO is mapped
\* when the ticketing table has its date and event and the staffing table DATA
LoadCredCols(cols, credCols) ==
    credCols \cup {"QTD", "ORIGEM"}
             \cup (IF ColEventDate \in cols /\ ColEvent \in cols /\ "DATA" \in credCols
                   THEN {"EVENTO"} ELSE {})

\* main, ticketing tab: the columns it adds before the filters
\* (adicionar_regiao_administrativa always adds "Região Administrativa")
MainDerivedCols(cols) ==
    cols \cup {"Região Administrativa"}
         \cup (IF ColEventDate \in cols THEN {"dia_semana", "dia_semana_label"} ELSE {})

\* main, ticketing tab: the column reads that no presence test protects, in
\* program order, each with its source line
UnguardedReads ==
    << [line |-> 529, col |-> ColEvent],
       [line |-> 533, col |-> ColEventDate],
       [line |-> 557, col |-> "Região Administrativa"],
       [line |-> 604, col |-> ColTickets],
       [line |-> 605, col |-> ColNetPrice],
       [line |-> 606, col |-> ColCpf] >>

\* the line of the first read of a missing column (a KeyError), or 0
KeyErrorLine(cols) ==
    LET bad == {i \in DOMAIN UnguardedReads : UnguardedReads[i].col \notin cols}
    IN IF bad = {} THEN 0
       ELSE UnguardedReads[CHOOSE i \in bad : \A j \in bad : i <= j].line

\* main: the filter widgets of both tabs; a filter whose column is missing is
\* not created and its selection is the empty list
MainFilters(cols, credCols) ==
    {"Evento", "Região Administrativa"}
    \cup (IF "dia_semana_label" \in cols THEN {"Dia da Semana"} ELSE {})
    \cup (IF ColCountry \in cols THEN {"País"} ELSE {})
    \cup (IF ColPriceCategory \in cols THEN {"Tipo de Ingresso"} ELSE {})
    \cup {c \in {"ETAPA", "CATEGORIA", "EMPRESA", "EVENTO", "ORIGEM"} : c \in credCols}
    \cup (IF "DATA" \in credCols THEN {"dia_label"} ELSE {})

MnIdle == [cols |-> {}, credCols |-> {}, filters |-> {}, line |-> 0, pc |-> "idle"]

MnStart ==
    {[MnIdle EXCEPT !.cols = c, !.credCols = k, !.pc = "read"] :
        c \in SUBSET ExpectedCols, k \in SUBSET ExpectedCredCols}

\* load_data returns the two tables with the columns it derives
load_data_cols ==
    /\ mn.pc = "read"
    /\ mn' = [mn EXCEPT !.cols = LoadBilhetesCols(mn.cols),
                        !.credCols = LoadCredCols(mn.cols, mn.credCols),
                        !.pc = "loaded"]
    /\ UNCHANGED <<cpf, ld, xr, ag, gh, ch, tb, sf, gm, dg, tu, ft, rc, cl>>

\* main reads a missing column: the KeyError ends the run
main_aborts ==
    /\ mn.pc = "loaded"
    /\ KeyErrorLine(MainDerivedCols(mn.cols)) # 0
    /\ mn' = [mn EXCEPT !.cols = MainDerivedCols(mn.cols),
                        !.line = KeyErrorLine(MainDerivedCols(mn.cols)),
                        !.pc = "aborted"]
    /\ UNCHANGED <<cpf, ld, xr, ag, gh, ch, tb, sf, gm, dg, tu, ft, rc, cl>>

\* main runs to its end
main_completes ==
    /\ mn.pc = "loaded"
    /\ KeyErrorLine(MainDerivedCols(mn.cols)) = 0
    /\ LET cols == MainDerivedCols(mn.cols)
           credCols == mn.credCols \cup (IF "DATA" \in mn.credCols
                                         THEN {"dia_semana", "dia_label"} ELSE {})
       IN mn' = [mn EXCEPT !.cols = cols,
                           !.credCols = credCols,
                           !.filters = MainFilters(cols, credCols),
                           !.pc = "done"]
    /\ UNCHANGED <<cpf, ld, xr, ag, gh, ch, tb, sf, gm, dg, tu, ft, rc, cl>>

MnNext == load_data_cols \/ main_aborts \/ main_completes

(***************************************************************************)
(* load_data: the date -> event map and the events of the staffing rows    *)
(***************************************************************************)
RECURSIVE KeepFirst(_)
\* DataFrame.drop_duplicates(): the first occurrence of each row, in row order
KeepFirst(rows) ==
    IF rows = <<>> THEN <<>>
    ELSE LET init == KeepFirst(SubSeq(rows, 1, Len(rows) - 1))
             last == rows[Len(rows)]
         IN IF \E i \in DOMAIN init : init[i] = last THEN init ELSE Append(init, last)

NoDropDuplicates(rows) == rows

DropDuplicates(rows) == KeepFirst(rows)

\* .set_index("TDL Event Date")["TDL Event"].to_dict(): a dict built pair by
\* pair, so that a later pair of the same date overwrites an earlier one
ToDict(pairs) ==
    [d \in {pairs[i].date : i \in DOMAIN pairs} |->
        pairs[CHOOSE i \in DOMAIN pairs :
                /\ pairs[i].date = d
                /\ \A j \in DOMAIN pairs : pairs[j].date = d => j <= i].event]

\* mapa_data_evento
MapaDataEvento(bilhetes) == ToDict(DropDuplicates(bilhetes))

SeriesMapInner(col, mapa) ==
    LET hit == SelectSeq(col, LAMBDA d : d \in DOMAIN mapa)
    IN [i \in DOMAIN hit |-> [data |-> hit[i], evento |-> mapa[hit[i]]]]

\* cred["EVENTO"] = cred["DATA"].map(mapa_data_evento): the rows stay, a date
\* that is no key of the dict gets NaN
SeriesMap(col, mapa) ==
    [i \in DOMAIN col |->
        [data |-> col[i],
         evento |-> IF col[i] \in DOMAIN mapa THEN mapa[col[i]] ELSE NaNLabel]]

MaxTicketRows == 3

TicketDates == {DateCell(1), DateCell(2), NaT}

\* the staffing dates: one that the ticket rows may hold, one that they never
\* hold, and a date that did not parse
CredDates == {DateCell(1), DateCell(3), NaT}

EventNames == {LabelCell("A"), LabelCell("B")}

XrIdle == [bilhetes |-> <<>>, credData |-> <<>>, mapa |-> <<>>, cred |-> <<>>, pc |-> "idle"]

XrStart ==
    {[XrIdle EXCEPT !.bilhetes = b, !.credData = c, !.pc = "read"] :
        b \in SeqsUpTo([date : TicketDates, event : EventNames], MaxTicketRows),
        c \in SeqsUpTo(CredDates, MaxRows)}

\* load_data builds mapa_data_evento from the ticket rows
BuildMapaDataEvento ==
    /\ xr.pc = "read"
    /\ xr' = [xr EXCEPT !.mapa = MapaDataEvento(xr.bilhetes), !.pc = "mapped"]
    /\ UNCHANGED <<cpf, ld, mn, ag, gh, ch, tb, sf, gm, dg, tu, ft, rc, cl>>

\* load_data maps the staffing dates to events
MapEvento ==
    /\ xr.pc = "mapped"
    /\ xr' = [xr EXCEPT !.cred = SeriesMap(xr.credData, xr.mapa), !.pc = "annotated"]
    /\ UNCHANGED <<cpf, ld, mn, ag, gh, ch, tb, sf, gm, dg, tu, ft, rc, cl>>

XrNext == BuildMapaDataEvento \/ MapEvento

(***************************************************************************)
(* main and the chart functions: filter, group, percentages                *)
(*                                                                         *)
(* A percentage is [k, v]: k = "num" with v the rounded value in units of  *)
(* its last decimal (tenths of a percent for round(1), hundredths for      *)
(* round(2)), or k = "nan" for the 0/0 of a float division.                *)
(***************************************************************************)
NumCell(n) == [k |-> "num", v |-> n]
NaNPct == [k |-> "nan", v |-> 0]

RECURSIVE SumFn(_)
\* the sum of the values of a function with a finite domain
SumFn(f) ==
    IF DOMAIN f = {} THEN 0
    ELSE LET x == CHOOSE y \in DOMAIN f : TRUE
         IN f[x] + SumFn([y \in DOMAIN f \ {x} |-> f[y]])

\* df[column].sum() of the ticket counts
SumTickets(df) == SumFn([i \in DOMAIN df |-> df[i].tickets])

\* Series.round(decimals) of num / den, den > 0: to the nearest unit, a tie to
\* the even unit
RoundHalfEven(num, den) ==
    LET fl == num \div den
        rem == num % den
    IN IF 2 * rem < den THEN fl
       ELSE IF 2 * rem > den THEN fl + 1
       ELSE IF fl % 2 = 0 THEN fl ELSE fl + 1

\* (qty / total * 100).round(decimals), scale = 10^decimals; on a zero total
\* the float division gives NaN for 0/0 and does not raise
Percentual(qty, total, scale) ==
    IF total = 0 THEN NaNPct ELSE NumCell(RoundHalfEven(qty * 100 * scale, total))

NotShown == [shown |-> FALSE, den |-> 0, groups |-> <<>>]

\* main l.576-580: the rows whose event is selected, every row when the
\* multiselect is empty.  The other filters (l.582-599: period, country,
\* ticket type, region, weekday) act the same way on df_b and are left at
\* their defaults, under which they keep every row of a table whose event
\* dates are all present.
ApplyFilters(bilhetes, evento_sel) ==
    IF evento_sel # {} THEN SelectSeq(bilhetes, LAMBDA r : r.event \in evento_sel)
    ELSE bilhetes

NUniqueWithNull(df, col) == Cardinality({df[i][col] : i \in DOMAIN df})

\* Series.nunique(): the number of distinct non-null values
NUnique(df, col) == Cardinality({df[i][col] : i \in DOMAIN df} \ {NaNLabel})

\* groupby(key)[...].sum(): the non-null keys, each with the sum of its rows
GroupSum(df, key) ==
    [g \in {df[i][key] : i \in DOMAIN df} \ {NaNLabel} |->
        SumTickets(SelectSeq(df, LAMBDA r : r[key] = g))]

\* a float that is not finite: x / 0 with x # 0
InfPct == [k |-> "inf", v |-> 0]

\* df[column].sum() of the net prices
SumReceita(df) == SumFn([i \in DOMAIN df |-> df[i].net])

\* groupby(key).agg(sum) of the net prices
GroupReceita(df, key) ==
    [g \in {df[i][key] : i \in DOMAIN df} \ {NaNLabel} |->
        SumReceita(SelectSeq(df, LAMBDA r : r[key] = g))]

\* (num / den).round(decimals) of two columns, scale = 10^decimals: the float
\* division by zero gives NaN for 0 / 0 and inf otherwise, and does not raise
FloatDiv(num, den, scale) ==
    IF den = 0 THEN (IF num = 0 THEN NaNPct ELSE InfPct)
    ELSE NumCell(RoundHalfEven(num * scale, den))

\* main l.616-617: num / den if den > 0 else 0, shown with two decimals
SafeDiv(num, den, scale) ==
    IF den > 0 THEN NumCell(RoundHalfEven(num * scale, den)) ELSE NumCell(0)

\* main l.606-626: clientes recorrentes, their number and their share of the
\* unique customers of the filtered rows
ClientesRecorrentes(df_b) ==
    LET total_clientes == NUnique(df_b, "cpf")
        eventos == [c \in {df_b[i].cpf : i \in DOMAIN df_b} \ {NaNLabel} |->
                        NUnique(SelectSeq(df_b, LAMBDA r : r.cpf = c), "event")]
        qtd_recorrentes == Cardinality({c \in DOMAIN eventos : eventos[c] > 1})
    IN [shown |-> TRUE,
        den |-> total_clientes,
        groups |-> [g \in {"recorrentes"} |->
            [qty |-> qtd_recorrentes,
             pct |-> IF total_clientes > 0
                     THEN NumCell(RoundHalfEven(qtd_recorrentes * 1000, total_clientes))
                     ELSE NumCell(0)]]]

RankingTotalOfBase(df_b) ==
    SumFn(GroupSum(SelectSeq(ag.bilhetes, LAMBDA r : r.event # NaNLabel), "event"))

RankingTotalAllRows(df_b) == SumTickets(df_b)

\* ranking_eventos_por_publico l.536: total_geral
RankingTotal(df_b) ==
    SumFn(GroupSum(SelectSeq(df_b, LAMBDA r : r.event # NaNLabel), "event"))

\* ranking_eventos_por_publico l.516-540
ranking_eventos_por_publico(df_b) ==
    IF df_b = <<>> THEN NotShown
    ELSE LET ranking == GroupSum(SelectSeq(df_b, LAMBDA r : r.event # NaNLabel), "event")
             receita == GroupReceita(SelectSeq(df_b, LAMBDA r : r.event # NaNLabel), "event")
             total_geral == RankingTotal(df_b)
         IN [shown |-> TRUE,
             den |-> total_geral,
             groups |-> [g \in DOMAIN ranking |->
                 [qty |-> ranking[g],
                  pct |-> Percentual(ranking[g], total_geral, 10),
                  medio |-> FloatDiv(receita[g], ranking[g], 100)]]]

\* grafico_pizza_tipo_ingresso_por_evento l.635-644: the options of the selectbox
PizzaOptions(df_b) ==
    {"Todos os eventos"} \cup {df_b[i].event.l : i \in {j \in DOMAIN df_b : df_b[j].event # NaNLabel}}

\* grafico_pizza_tipo_ingresso_por_evento l.648-654: df_filtrado
PizzaFiltrado(df_b, sel) ==
    IF sel = "Todos os eventos" THEN df_b
    ELSE SelectSeq(df_b, LAMBDA r : r.event = LabelCell(sel))

\* grafico_pizza_tipo_ingresso_por_evento l.621-672
grafico_pizza_tipo_ingresso_por_evento(df_b, sel) ==
    IF df_b = <<>> \/ PizzaOptions(df_b) = {"Todos os eventos"} THEN NotShown
    ELSE LET df_filtrado == PizzaFiltrado(df_b, sel)
             tipo_ingresso_count ==
                 GroupSum(SelectSeq(df_filtrado, LAMBDA r : r.tipo # NaNLabel), "tipo")
             total == SumFn(tipo_ingresso_count)
         IN IF DOMAIN tipo_ingresso_count = {} THEN NotShown
            ELSE [shown |-> TRUE,
                  den |-> total,
                  groups |-> [g \in DOMAIN tipo_ingresso_count |->
                      [qty |-> tipo_ingresso_count[g],
                       pct |-> Percentual(tipo_ingresso_count[g], total, 100)]]]

\* the edges of pd.cut in analise_comportamento_compra, the last one is inf
FaixaBins == <<0, 1, 2, 3, 5, 10>>

FaixaLabels ==
    <<"1 ingresso", "2 ingressos", "3 ingressos", "4-5 ingressos", "6-10 ingressos", "Mais de 10">>

\* pd.cut(x, bins=[0, 1, 2, 3, 5, 10, inf], labels): x in (bins[i], bins[i+1]]
FaixaIngressos(x) ==
    IF x <= FaixaBins[1] THEN NaNLabel
    ELSE IF x > FaixaBins[Len(FaixaBins)] THEN LabelCell(FaixaLabels[Len(FaixaLabels)])
    ELSE LabelCell(FaixaLabels[CHOOSE i \in 1..(Len(FaixaBins) - 1) :
                                    FaixaBins[i] < x /\ x <= FaixaBins[i + 1]])

SeqRange(s) == {s[i] : i \in DOMAIN s}

\* analise_comportamento_compra l.77-97: the customers per band of tickets;
\* value_counts of a categorical column lists every category
analise_comportamento_compra(df_b) ==
    IF df_b = <<>> THEN NotShown
    ELSE LET ingressos_por_cliente ==
                 GroupSum(SelectSeq(df_b, LAMBDA r : r.cpf # NaNLabel), "cpf")
             dist_faixa == [l \in SeqRange(FaixaLabels) |->
                 Cardinality({c \in DOMAIN ingressos_por_cliente :
                                FaixaIngressos(ingressos_por_cliente[c]) = LabelCell(l)})]
             total_clientes_dist == SumFn(dist_faixa)
         IN [shown |-> TRUE,
             den |-> total_clientes_dist,
             groups |-> [l \in DOMAIN dist_faixa |->
                 [qty |-> dist_faixa[l],
                  pct |-> Percentual(dist_faixa[l], total_clientes_dist, 10)]]]

\* analise_demografica l.81-88: the rows per age bracket
analise_demografica(df_b) ==
    LET idade_count == [l \in SeqRange(AgeLabels) |->
            Cardinality({i \in DOMAIN df_b : df_b[i].faixa = LabelCell(l)})]
        total_idade == SumFn(idade_count)
    IN [shown |-> TRUE,
        den |-> total_idade,
        groups |-> [l \in DOMAIN idade_count |->
            [qty |-> idade_count[l], pct |-> Percentual(idade_count[l], total_idade, 10)]]]

\* main l.604-626: the headline metrics of the filtered rows
HeadlineMetrics(df_b) ==
    LET total_ingressos == SumTickets(df_b)
        total_receita == SumReceita(df_b)
        total_clientes == NUnique(df_b, "cpf")
        rec == ClientesRecorrentes(df_b).groups["recorrentes"]
    IN [total_ingressos |-> total_ingressos,
        total_receita |-> total_receita,
        total_clientes |-> total_clientes,
        media_ingressos_por_cpf |-> SafeDiv(total_ingressos, total_clientes, 100),
        ticket_medio |-> SafeDiv(total_receita, total_ingressos, 100),
        qtd_recorrentes |-> rec.qty,
        perc_recorrentes |-> rec.pct]

NoVendas == [shown |-> FALSE, por_dia |-> <<>>]

\* grafico_vendas_ao_longo_do_tempo l.35-41: the tickets per event date, and
\* nothing but the heading on an empty table
grafico_vendas_ao_longo_do_tempo(df_b) ==
    IF df_b = <<>> THEN NoVendas
    ELSE [shown |-> TRUE, por_dia |-> GroupSum(df_b, "date")]

\* the displays of the ticketing page
Displays ==
    {"metricas", "vendas", "comportamento", "demografica",
     "ranking", "pizza", "turismo", "clusters"}

\* the displays whose code reaches an st.info call: the ranking (l.516-517),
\* the tourism analysis (l.225-226) and the customer clusters (clusters
\* l.47-48) on an empty table, the pie whenever it draws nothing (l.621-667);
\* the metrics, the sales over time, the purchase behaviour and the
\* demographics have no such call for an empty table
InfoMessages(df_b, pizza_sel) ==
    {d \in {"ranking", "turismo", "clusters"} : df_b = <<>>}
    \cup {d \in {"pizza"} : ~grafico_pizza_tipo_ingresso_por_evento(df_b, pizza_sel).shown}

MaxAggRows == 3

EvA == LabelCell("A")
EvB == LabelCell("B")

DefaultRow ==
    [event |-> EvA, date |-> LabelCell("d1"), cpf |-> LabelCell("c1"),
     tickets |-> 1, net |-> 100,
     tipo |-> LabelCell("X"), faixa |-> LabelCell("18-24")]

\* rows that differ in event, customer and ticket count
RowsEvento ==
    {[DefaultRow EXCEPT !.event = e, !.cpf = c, !.tickets = n] :
        e \in {EvA, EvB, NaNLabel}, c \in {LabelCell("c1"), LabelCell("c2")}, n \in {0, 1}}

\* rows of one event that differ in customer and ticket count
RowsCliente ==
    {[DefaultRow EXCEPT !.cpf = c, !.tickets = n] :
        c \in {LabelCell("c1"), LabelCell("c2"), LabelCell("c3"), NaNLabel}, n \in {0, 1, 2}}

\* rows that differ in ticket type and ticket count, and one row of another event
RowsTipo ==
    {[DefaultRow EXCEPT !.tipo = tp, !.tickets = n] :
        tp \in {LabelCell("X"), LabelCell("Y"), LabelCell("Z"), NaNLabel}, n \in {0, 1}}
    \cup {[DefaultRow EXCEPT !.event = EvB]}

\* rows that differ in age bracket
RowsFaixa ==
    {[DefaultRow EXCEPT !.faixa = f] :
        f \in {LabelCell("Menor de 18"), LabelCell("18-24"), LabelCell("65+"), NaNLabel}}

\* rows of one customer that differ in event, ticket count and net price
RowsReceita ==
    {[DefaultRow EXCEPT !.event = e, !.tickets = n, !.net = v] :
        e \in {EvA, EvB}, n \in {0, 2}, v \in {0, 100}}

AgTables ==
    SeqsUpTo(RowsEvento, MaxAggRows) \cup SeqsUpTo(RowsCliente, MaxAggRows)
    \cup SeqsUpTo(RowsTipo, MaxAggRows) \cup SeqsUpTo(RowsFaixa, MaxAggRows)
    \cup SeqsUpTo(RowsReceita, MaxAggRows)

AgIdle ==
    [bilhetes |-> <<>>, evento_sel |-> {}, pizza_sel |-> "", df_b |-> <<>>,
     recorrentes |-> NotShown, ranking |-> NotShown, pizza |-> NotShown,
     faixas |-> NotShown, idades |-> NotShown,
     metricas |-> HeadlineMetrics(<<>>), vendas |-> NoVendas, info |-> {},
     pc |-> "idle"]

AgStart == {[AgIdle EXCEPT !.bilhetes = b, !.pc = "loaded"] : b \in AgTables}

\* main l.529: the options of the "Evento" multiselect
EventoOptions(bilhetes) == {bilhetes[i].event : i \in DOMAIN bilhetes} \ {NaNLabel}

\* one run of main: the user's selection, the filter, the metrics and charts
main ==
    /\ ag.pc = "loaded"
    /\ \E evento_sel \in SUBSET EventoOptions(ag.bilhetes) :
        LET df_b == ApplyFilters(ag.bilhetes, evento_sel)
        IN \E pizza_sel \in PizzaOptions(df_b) :
            ag' = [ag EXCEPT !.evento_sel = evento_sel,
                             !.pizza_sel = pizza_sel,
                             !.df_b = df_b,
                             !.recorrentes = ClientesRecorrentes(df_b),
                             !.ranking = ranking_eventos_por_publico(df_b),
                             !.pizza = grafico_pizza_tipo_ingresso_por_evento(df_b, pizza_sel),
                             !.faixas = analise_comportamento_compra(df_b),
                             !.idades = analise_demografica(df_b),
                             !.metricas = HeadlineMetrics(df_b),
                             !.vendas = grafico_vendas_ao_longo_do_tempo(df_b),
                             !.info = InfoMessages(df_b, pizza_sel),
                             !.pc = "shown"]
    /\ UNCHANGED <<cpf, ld, mn, xr, gh, ch, tb, sf, gm, dg, tu, ft, rc, cl>>

\* the user changes a widget: the page is discarded and the script runs
\* again from its first line on the loaded table
rerun ==
    /\ ag.pc = "shown"
    /\ ag' = [AgIdle EXCEPT !.bilhetes = ag.bilhetes, !.pc = "loaded"]
    /\ UNCHANGED <<cpf, ld, mn, xr, gh, ch, tb, sf, gm, dg, tu, ft, rc, cl>>

AgNext == main \/ rerun

(***************************************************************************)
(* load_file_from_github                                                   *)
(***************************************************************************)
\* b'PK\x03\x04', the first bytes of a ZIP container
ZipSignature == <<80, 75, 3, 4>>

SignatureLen == 4

MinContentLen == 100

DiagnosticLen == 100

MinOf(a, b) == IF a < b THEN a ELSE b

\* content[:n] of a body kept as its length and its first bytes; the head
\* holds the first SignatureLen bytes, or all of them in a shorter body
Prefix(content, n) ==
    [len |-> MinOf(content.len, n),
     head |-> SubSeq(content.head, 1, MinOf(n, Len(content.head)))]

ValidExcelAnyLength(content) ==
    Prefix(content, SignatureLen).head = ZipSignature

\* l.20: the negation of the test that rejects the body
ValidExcel(content) ==
    ~(content.len < MinContentLen \/ Prefix(content, SignatureLen).head # ZipSignature)

EmptyContent == [len |-> 0, head |-> <<>>]

NoFile == [content |-> EmptyContent, pos |-> 0, open |-> FALSE]

\* BytesIO(content): a file object over the bytes, positioned at their start
BytesIO(content) == [content |-> content, pos |-> 0, open |-> TRUE]

\* file_obj.seek(n)
Seek(file_obj, n) == [file_obj EXCEPT !.pos = n]

\* the three st.error lines of l.22-24
ErrorReport(url, content) ==
    [url |-> url, len |-> content.len, bytes |-> Prefix(content, DiagnosticLen)]

(***************************************************************************)
(* Inputs of load_file_from_github                                         *)
(***************************************************************************)
ByteAlphabet == {80, 75, 3, 4, 0}

ContentLens == {0, 2, 4, 99, 100, 101}

Contents ==
    UNION {{[len |-> n, head |-> h] : h \in [1..MinOf(n, SignatureLen) -> ByteAlphabet]} :
            n \in ContentLens}

Urls == {"base_unificada_arena_marisa_RA.xlsx", "data/raw/CREDENCIAMENTO_Planilha_AC.xlsx"}

GhIdle ==
    [url |-> "", response |-> "ok", content |-> EmptyContent, requests |-> 0,
     errors |-> <<>>, file_obj |-> NoFile, pc |-> "idle"]

GhStart ==
    {[GhIdle EXCEPT !.url = u, !.response = "ok", !.content = c, !.pc = "call"] :
        u \in Urls, c \in Contents}
    \cup {[GhIdle EXCEPT !.url = u, !.response = "http_error", !.content = c, !.pc = "call"] :
        u \in Urls, c \in {c \in Contents : c.len \in {0, 100}}}
    \cup {[GhIdle EXCEPT !.url = u, !.response = "no_response", !.pc = "call"] : u \in Urls}

\* l.15-16: requests.get or raise_for_status raises; nothing is shown
load_file_from_github_fails ==
    /\ gh.pc = "call"
    /\ gh.response # "ok"
    /\ gh' = [gh EXCEPT !.requests = @ + 1, !.pc = "raised"]
    /\ UNCHANGED <<cpf, ld, mn, xr, ag, ch, tb, sf, gm, dg, tu, ft, rc, cl>>

\* l.15-25: the body is not a spreadsheet container; three st.error lines,
\* then ValueError
load_file_from_github_rejects ==
    /\ gh.pc = "call"
    /\ gh.response = "ok"
    /\ ~ValidExcel(gh.content)
    /\ gh' = [gh EXCEPT !.requests = @ + 1,
                        !.errors = Append(@, ErrorReport(gh.url, gh.content)),
                        !.pc = "raised"]
    /\ UNCHANGED <<cpf, ld, mn, xr, ag, ch, tb, sf, gm, dg, tu, ft, rc, cl>>

\* l.15-29: the body is accepted and returned as a file object
load_file_from_github_returns ==
    /\ gh.pc = "call"
    /\ gh.response = "ok"
    /\ ValidExcel(gh.content)
    /\ gh' = [gh EXCEPT !.requests = @ + 1,
                        !.file_obj = Seek(BytesIO(gh.content), 0),
                        !.pc = "returned"]
    /\ UNCHANGED <<cpf, ld, mn, xr, ag, ch, tb, sf, gm, dg, tu, ft, rc, cl>>

GhNext ==
    load_file_from_github_fails \/ load_file_from_github_rejects
    \/ load_file_from_github_returns

(***************************************************************************)
(* The session: main, load_data and st.cache_data                          *)
(***************************************************************************)
MaxVersions == 3

MaxRuns == 3

\* load_data calls load_file_from_github at l.45, l.107 and l.108
RequestsPerLoad == 3

EmptyTable == [rows |-> <<>>, cols |-> {}]

\* what the body of load_data returns when the remote files are at version
\* source: the ticket rows and the staffing rows of that version, with the
\* columns load_data leaves in the tables; the field version records which
\* files the tables were read from
load_data(source) ==
    [version |-> source,
     bilhetes |-> [rows |-> <<[event |-> "A", date |-> source],
                             [event |-> "B", date |-> source + 1]>>,
                   cols |-> {"TDL Event", "TDL Event Date", "Idade", "Faixa Etária"}],
     cred |-> [rows |-> <<[data |-> source, evento |-> "A"]>>,
               cols |-> {"DATA", "QTD", "ORIGEM", "EVENTO"}]]

\* @st.cache_data on a function without parameters: the key of the entry is
\* made of the function alone, whatever the remote files hold
CacheKey(source) == "load_data()"

NoEntry == [key |-> "", value |-> [version |-> 0, bilhetes |-> EmptyTable, cred |-> EmptyTable]]

SharedAfterRun(entry, cred) == [entry EXCEPT !.value.cred = cred]

\* st.cache_data keeps a serialized value and hands a fresh copy to each
\* caller: what main does to its copy of cred (l.1131-1143) stays out of
\* the entry
StoredAfterRun(entry, cred) == entry

\* adicionar_regiao_administrativa l.321-478: a copy with one more column
adicionar_regiao_administrativa(df_bilhete) ==
    [rows |-> df_bilhete.rows, cols |-> df_bilhete.cols \cup {"Região Administrativa"}]

\* main l.510-523 and l.1130-1143: the weekday columns, written into the table
AddDiaSemana(df, date_col, new_cols) ==
    IF date_col \in df.cols THEN [rows |-> df.rows, cols |-> df.cols \cup new_cols]
    ELSE df

\* main l.577-580: df_b = bilhetes.copy(), then the rows of the chosen events
FilterEvento(df, evento_sel) ==
    IF evento_sel # {}
    THEN [rows |-> SelectSeq(df.rows, LAMBDA r : r.event \in evento_sel), cols |-> df.cols]
    ELSE df

\* main l.1213-1221: df_c = cred.copy(), then the rows of the chosen events
FilterEventoCred(df, evento_cred_sel) ==
    IF evento_cred_sel # {}
    THEN [rows |-> SelectSeq(df.rows, LAMBDA r : r.evento \in evento_cred_sel), cols |-> df.cols]
    ELSE df

\* main l.496-599 and l.1126-1221 on the tables load_data() gave it
RunMain(session, entry, evento_sel, evento_cred_sel) ==
    LET bilhetes == AddDiaSemana(adicionar_regiao_administrativa(entry.value.bilhetes),
                                 "TDL Event Date", {"dia_semana", "dia_semana_label"})
        cred == AddDiaSemana(entry.value.cred, "DATA", {"dia_semana", "dia_label"})
    IN [session EXCEPT !.cache = StoredAfterRun(entry, cred),
                       !.runs = @ + 1,
                       !.start = entry.value,
                       !.bilhetes = bilhetes,
                       !.cred = cred,
                       !.df_b = FilterEvento(bilhetes, evento_sel),
                       !.evento_sel = evento_sel,
                       !.df_c = FilterEventoCred(cred, evento_cred_sel),
                       !.evento_cred_sel = evento_cred_sel,
                       !.pc = "shown"]

ChIdle ==
    [source |-> 0, cache |-> NoEntry, loads |-> 0, requests |-> 0, runs |-> 0,
     start |-> NoEntry.value, bilhetes |-> EmptyTable, cred |-> EmptyTable,
     df_b |-> EmptyTable, evento_sel |-> {},
     df_c |-> EmptyTable, evento_cred_sel |-> {}, pc |-> "idle"]

ChStart == {[ChIdle EXCEPT !.source = 1, !.pc = "start"]}

\* a run of main that finds no entry: the body of load_data runs and its
\* result is stored
main_loads ==
    /\ ch.pc # "idle"
    /\ ch.runs < MaxRuns
    /\ ch.cache.key # CacheKey(ch.source)
    /\ \E evento_sel \in SUBSET {"A", "B"}, evento_cred_sel \in SUBSET {"A"} :
        LET entry == [key |-> CacheKey(ch.source), value |-> load_data(ch.source)]
        IN ch' = [RunMain(ch, entry, evento_sel, evento_cred_sel) EXCEPT
                      !.loads = @ + 1, !.requests = @ + RequestsPerLoad]
    /\ UNCHANGED <<cpf, ld, mn, xr, ag, gh, tb, sf, gm, dg, tu, ft, rc, cl>>

\* a rerun of main that finds the entry: load_data() returns the stored value
main_reuses ==
    /\ ch.pc # "idle"
    /\ ch.runs < MaxRuns
    /\ ch.cache.key = CacheKey(ch.source)
    /\ \E evento_sel \in SUBSET {"A", "B"}, evento_cred_sel \in SUBSET {"A"} :
        ch' = RunMain(ch, ch.cache, evento_sel, evento_cred_sel)
    /\ UNCHANGED <<cpf, ld, mn, xr, ag, gh, tb, sf, gm, dg, tu, ft, rc, cl>>

\* the files of the remote repository are replaced
source_changes ==
    /\ ch.pc # "idle"
    /\ ch.source < MaxVersions
    /\ ch' = [ch EXCEPT !.source = @ + 1,
                        !.pc = IF ch.pc = "start" THEN "start" ELSE "changed"]
    /\ UNCHANGED <<cpf, ld, mn, xr, ag, gh, tb, sf, gm, dg, tu, ft, rc, cl>>

ChNext == main_loads \/ main_reuses \/ source_changes

(***************************************************************************)
(* The values of the tables load_data returns                              *)
(***************************************************************************)
MaxValueRows == 2

MaxSheetRows == 1

\* a column read from a sheet has dtype object when a cell holds a text, and
\* float64 when every cell is blank
IsObjectColumn(col) == \E i \in DOMAIN col : col[i].k # "nan"

\* l.133-135: every object column but DATA is cast to text
CastObjectColumn(col) ==
    IF IsObjectColumn(col) THEN [i \in DOMAIN col |-> AsTypeStr(col[i])] ELSE col

\* l.115-126: a sheet without a QTD column counts 1 per row, every row gets
\* the tag of its sheet, and the two sheets are stacked
ConcatSheets(cred_2025, desm_2024) ==
    [i \in DOMAIN cred_2025 |->
        [categoria |-> cred_2025[i].categoria, cpf |-> cred_2025[i].cpf,
         qtd |-> 1, origem |-> "2025"]]
    \o [i \in DOMAIN desm_2024 |->
        [categoria |-> desm_2024[i].categoria, cpf |-> desm_2024[i].cpf,
         qtd |-> 1, origem |-> "Desmontagem 2024"]]

\* l.143-145: the lambda calls x.zfill on every cell that is not None and not
\* one of the four texts; a float cell has no zfill
CredCpfRaises(col) == col # <<>> /\ ~IsObjectColumn(col)

\* l.105-145 on the columns CATEGORIA and CPF of the stacked sheets
LoadCred(cred_2025, desm_2024) ==
    LET cred == ConcatSheets(cred_2025, desm_2024)
        categoria == CastObjectColumn([i \in DOMAIN cred |-> cred[i].categoria])
        cpfCol == NormalizeCredCpf([i \in DOMAIN cred |-> cred[i].cpf])
    IN [i \in DOMAIN cred |->
           [cred[i] EXCEPT !.categoria = categoria[i], !.cpf = cpfCol[i]]]

\* main l.1238-1241: the professionals are told apart by the first column
\* whose name contains "CPF"
PersonId(row) == row.cpf

TxtCategoria == <<"T", "E", "C">>

TxtArtistic == <<"A", "R", "T", "I", "S", "T", "I", "C">>

TicketValueRows == {[tickets |-> n, net |-> v] : n \in {-1, 1}, v \in {-100, 100}}

StaffRows ==
    {[categoria |-> c, cpf |-> p] :
        c \in {StrCell(TxtCategoria), StrCell(TxtEmpty), NaNCell},
        p \in {StrCell(<<"7">>), NaNCell}}

TbIdle ==
    [bilhetesRaw |-> <<>>, cred_2025 |-> <<>>, desm_2024 |-> <<>>,
     bilhetes |-> <<>>, cred |-> <<>>, pc |-> "idle"]

TbStart ==
    {[TbIdle EXCEPT !.bilhetesRaw = b, !.cred_2025 = c, !.desm_2024 = d, !.pc = "read"] :
        b \in SeqsUpTo(TicketValueRows, MaxValueRows),
        c \in SeqsUpTo(StaffRows, MaxSheetRows),
        d \in SeqsUpTo(StaffRows, MaxSheetRows)}

\* load_data returns: no statement of l.45-96 writes the ticket count or the
\* net price, the staffing columns are cast and normalized
load_data_values ==
    /\ tb.pc = "read"
    /\ LET cred == ConcatSheets(tb.cred_2025, tb.desm_2024)
       IN ~CredCpfRaises([i \in DOMAIN cred |-> cred[i].cpf])
    /\ tb' = [tb EXCEPT !.bilhetes = tb.bilhetesRaw,
                        !.cred = LoadCred(tb.cred_2025, tb.desm_2024),
                        !.pc = "loaded"]
    /\ UNCHANGED <<cpf, ld, mn, xr, ag, gh, ch, sf, gm, dg, tu, ft, rc, cl>>

\* load_data stops at l.143 with AttributeError
load_data_values_raises ==
    /\ tb.pc = "read"
    /\ LET cred == ConcatSheets(tb.cred_2025, tb.desm_2024)
       IN CredCpfRaises([i \in DOMAIN cred |-> cred[i].cpf])
    /\ tb' = [tb EXCEPT !.pc = "raised"]
    /\ UNCHANGED <<cpf, ld, mn, xr, ag, gh, ch, sf, gm, dg, tu, ft, rc, cl>>

TbNext == load_data_values \/ load_data_values_raises

(***************************************************************************)
(* load_data and the staffing tab: the two sheets, QTD and ORIGEM          *)
(*                                                                         *)
(* A sheet is [has_qtd, rows]; has_qtd tells whether the sheet has a QTD   *)
(* column.  A row holds the cells of CATEGORIA and of two role columns,    *)
(* and the cell of QTD (k = "absent" where the sheet has no such column).  *)
(***************************************************************************)
MaxStaffRows == 1

NoColumn == [k |-> "absent"]

\* l.116-119: a sheet without a QTD column gets QTD = 1 on every row
EnsureQtdZero(sheet) ==
    [i \in DOMAIN sheet.rows |->
        IF sheet.has_qtd THEN sheet.rows[i]
        ELSE [sheet.rows[i] EXCEPT !.qtd = NumCell(0)]]

EnsureQtd(sheet) ==
    [i \in DOMAIN sheet.rows |->
        IF sheet.has_qtd THEN sheet.rows[i]
        ELSE [sheet.rows[i] EXCEPT !.qtd = NumCell(1)]]

\* l.122-123: every row of a sheet gets the tag of the sheet
TagOrigem(rows, tag) ==
    [i \in DOMAIN rows |->
        [categoria |-> rows[i].categoria, funcao1 |-> rows[i].funcao1,
         funcao2 |-> rows[i].funcao2, qtd |-> rows[i].qtd, origem |-> tag]]

Origem2025 == "2025"

OrigemDesmontagem == "Desmontagem 2024"

\* l.126: pd.concat([cred_2025, desm_2024], ignore_index=True)
ConcatCredOneTag(cred_2025, desm_2024) ==
    TagOrigem(EnsureQtd(cred_2025), Origem2025)
    \o TagOrigem(EnsureQtd(desm_2024), Origem2025)

ConcatCred(cred_2025, desm_2024) ==
    TagOrigem(EnsureQtd(cred_2025), Origem2025)
    \o TagOrigem(EnsureQtd(desm_2024), OrigemDesmontagem)

\* l.132-135: the object columns of the stacked table are cast to text
CastCred(cred) ==
    LET categoria == CastObjectColumn([i \in DOMAIN cred |-> cred[i].categoria])
        funcao1 == CastObjectColumn([i \in DOMAIN cred |-> cred[i].funcao1])
        funcao2 == CastObjectColumn([i \in DOMAIN cred |-> cred[i].funcao2])
    IN [i \in DOMAIN cred |->
           [cred[i] EXCEPT !.categoria = categoria[i], !.funcao1 = funcao1[i],
                           !.funcao2 = funcao2[i]]]

\* l.105-135 on the columns CATEGORIA, QTD, ORIGEM and the role columns
LoadStaff(cred_2025, desm_2024) == CastCred(ConcatCred(cred_2025, desm_2024))

\* main l.1213-1223: the filters on CATEGORIA and on ORIGEM, in this order
FilterCred(cred, cat_sel, origem_sel) ==
    LET byCat == IF cat_sel = {} THEN cred
                 ELSE SelectSeq(cred, LAMBDA r : r.categoria \in cat_sel)
    IN IF origem_sel = {} THEN byCat
       ELSE SelectSeq(byCat, LAMBDA r : r.origem \in origem_sel)

\* main l.1247-1249: df_c["QTD"].sum(), a blank QTD adds nothing
TotalCredenciamentos(df_c) ==
    SumFn([i \in DOMAIN df_c |-> IF df_c[i].qtd.k = "num" THEN df_c[i].qtd.v ELSE 0])

\* main l.1155-1156, 1179-1180: the options of the two multiselects are the
\* values present in the column
CategoriaOptions(cred) == {cred[i].categoria : i \in DOMAIN cred}

OrigemOptions(cred) == {cred[i].origem : i \in DOMAIN cred}

TxtSeguranca == <<"S", "E", "G">>

RoleCells == {StrCell(TxtSeguranca), NaNCell}

SheetRows(qtds) ==
    {[categoria |-> c, funcao1 |-> r1, funcao2 |-> r2, qtd |-> q] :
        c \in {StrCell(TxtCategoria), StrCell(TxtArtistic)},
        r1 \in RoleCells, r2 \in RoleCells, q \in qtds}

Sheets ==
    {[has_qtd |-> FALSE, rows |-> r] : r \in SeqsUpTo(SheetRows({NoColumn}), MaxStaffRows)}
    \cup {[has_qtd |-> TRUE, rows |-> r] :
             r \in SeqsUpTo(SheetRows({NumCell(2)}), MaxStaffRows)}

SfIdle ==
    [cred_2025 |-> [has_qtd |-> FALSE, rows |-> <<>>],
     desm_2024 |-> [has_qtd |-> FALSE, rows |-> <<>>],
     cred |-> <<>>, cat_sel |-> {}, origem_sel |-> {}, df_c |-> <<>>,
     total |-> 0, pc |-> "idle"]

SfStart ==
    {[SfIdle EXCEPT !.cred_2025 = a, !.desm_2024 = b, !.pc = "read"] :
        a \in Sheets, b \in Sheets}

\* load_data l.105-135
load_data_cred ==
    /\ sf.pc = "read"
    /\ sf' = [sf EXCEPT !.cred = LoadStaff(sf.cred_2025, sf.desm_2024),
                        !.pc = "loaded"]
    /\ UNCHANGED <<cpf, ld, mn, xr, ag, gh, ch, tb, gm, dg, tu, ft, rc, cl>>

\* main l.1126-1250: the staffing tab under one choice of the filters
tab_credenciamento ==
    /\ sf.pc = "loaded"
    /\ \E cat_sel \in SUBSET CategoriaOptions(sf.cred),
          origem_sel \in SUBSET OrigemOptions(sf.cred) :
          LET df_c == FilterCred(sf.cred, cat_sel, origem_sel)
          IN sf' = [sf EXCEPT !.cat_sel = cat_sel, !.origem_sel = origem_sel,
                              !.df_c = df_c,
                              !.total = TotalCredenciamentos(df_c),
                              !.pc = "shown"]
    /\ UNCHANGED <<cpf, ld, mn, xr, ag, gh, ch, tb, gm, dg, tu, ft, rc, cl>>

\* the user changes a widget: Streamlit runs main again
rerun_cred ==
    /\ sf.pc = "shown"
    /\ sf' = [sf EXCEPT !.cat_sel = {}, !.origem_sel = {}, !.df_c = <<>>,
                        !.total = 0, !.pc = "loaded"]
    /\ UNCHANGED <<cpf, ld, mn, xr, ag, gh, ch, tb, gm, dg, tu, ft, rc, cl>>

SfNext == load_data_cred \/ tab_credenciamento \/ rerun_cred

(***************************************************************************)
(* The choropleth maps of src/graficos/geograficos: the join of the        *)
(* aggregated names with the names of the boundary file                    *)
(*                                                                         *)
(* A character of a name is [l, up, ac]: the base letter, whether it is    *)
(* upper case and whether it carries a diacritic; a blank is the letter    *)
(* " ".  A name is a sequence of characters.                               *)
(***************************************************************************)
Blank == [l |-> " ", up |-> FALSE, ac |-> FALSE]

Ch(l, up, ac) == [l |-> l, up |-> up, ac |-> ac]

\* str.upper()
StrUpper(t) ==
    [i \in DOMAIN t |-> IF t[i] = Blank THEN Blank ELSE [t[i] EXCEPT !.up = TRUE]]

\* str.strip()
RECURSIVE StrStrip(_)
StrStrip(t) ==
    IF t = <<>> THEN t
    ELSE IF Head(t) = Blank THEN StrStrip(Tail(t))
    ELSE IF t[Len(t)] = Blank THEN StrStrip(SubSeq(t, 1, Len(t) - 1))
    ELSE t

\* l.37-42: NFKD decomposition, the combining marks are dropped
remover_acentos(texto) == [i \in DOMAIN texto |-> [texto[i] EXCEPT !.ac = FALSE]]

SiglaPA == <<Ch("p", TRUE, FALSE), Ch("a", TRUE, FALSE)>>

NamePara ==
    <<Ch("p", TRUE, FALSE), Ch("a", FALSE, FALSE), Ch("r", FALSE, FALSE),
      Ch("a", FALSE, TRUE)>>

\* mapa_brasil l.73-81: the keys are upper-case names with their diacritics
mapa_estados(uf) == IF uf = StrUpper(NamePara) THEN SiglaPA ELSE uf

\* mapa_brasil l.95-103: the inverse of the sigla -> name dictionary, keyed
\* by the name as the dictionary writes it; NaN for any other name
NoSigla == <<>>

SiglaOfName(name) == IF name = NamePara THEN SiglaPA ELSE NoSigla

\* mapa_brasil l.69-70, 84-85: the key of an aggregated row
UfKey(uf) == mapa_estados(StrStrip(StrUpper(uf)))

\* mapa_brasil l.88-106: the key of a polygon, by the column of the file
BrasilKey(field, boundary) ==
    IF field = "name" THEN SiglaOfName(boundary) ELSE boundary

\* mapa_brasil l.109-114
MergeBrasil(field, boundary, uf) ==
    BrasilKey(field, boundary) # NoSigla /\ BrasilKey(field, boundary) = UfKey(uf)

\* mapa_estado_rj l.236, 247: both names without diacritics, upper case, trimmed
CidadeNorm(name) == StrStrip(StrUpper(remover_acentos(name)))

\* mapa_estado_rj l.250-255
MergeRj(boundary, cidade) == CidadeNorm(boundary) = CidadeNorm(cidade)

\* mapa_ras_capital l.350-353
RaNorm(name) == StrStrip(StrUpper(name))

\* mapa_ras_capital l.339-360: the names are merged as they are; they are
\* normalized only when that first merge matched no polygon at all
MergeRas(boundary, ra, other_match) ==
    IF other_match \/ boundary = ra THEN boundary = ra
    ELSE RaNorm(boundary) = RaNorm(ra)

NameMage ==
    <<Ch("m", TRUE, FALSE), Ch("a", FALSE, FALSE), Ch("g", FALSE, FALSE),
      Ch("e", FALSE, TRUE)>>

NameMeier ==
    <<Ch("m", TRUE, FALSE), Ch("e", FALSE, TRUE), Ch("i", FALSE, FALSE),
      Ch("e", FALSE, FALSE), Ch("r", FALSE, FALSE)>>

StrLower(t) ==
    [i \in DOMAIN t |-> IF t[i] = Blank THEN Blank ELSE [t[i] EXCEPT !.up = FALSE]]

\* the spellings of a name: as written, upper case or lower case, with or
\* without its diacritics, with a blank before or after it
Spellings(name) ==
    LET cased == {name, StrUpper(name), StrLower(name)}
        plain == cased \cup {remover_acentos(t) : t \in cased}
    IN plain \cup {<<Blank>> \o t : t \in plain} \cup {t \o <<Blank>> : t \in plain}

GmIdle ==
    [fn |-> "", field |-> "", boundary |-> <<>>, agg |-> <<>>,
     other_match |-> FALSE, joined |-> FALSE, pc |-> "idle"]

GmStart ==
    {[GmIdle EXCEPT !.fn = "brasil", !.field = f, !.boundary = b, !.agg = a,
                    !.pc = "call"] :
        f \in {"sigla"}, b \in Spellings(SiglaPA),
        a \in Spellings(SiglaPA) \cup Spellings(NamePara)}
    \cup {[GmIdle EXCEPT !.fn = "brasil", !.field = f, !.boundary = b, !.agg = a,
                         !.pc = "call"] :
             f \in {"name"}, b \in Spellings(NamePara),
             a \in Spellings(SiglaPA) \cup Spellings(NamePara)}
    \cup {[GmIdle EXCEPT !.fn = "rj", !.field = "name", !.boundary = b, !.agg = a,
                         !.pc = "call"] :
             b \in Spellings(NameMage), a \in Spellings(NameMage)}
    \cup {[GmIdle EXCEPT !.fn = "ras", !.field = "nomera", !.boundary = b,
                         !.agg = a, !.other_match = o, !.pc = "call"] :
             b \in Spellings(NameMeier), a \in Spellings(NameMeier),
             o \in BOOLEAN}

\* mapa_brasil l.45-114
mapa_brasil ==
    /\ gm.pc = "call" /\ gm.fn = "brasil"
    /\ gm' = [gm EXCEPT !.joined = MergeBrasil(gm.field, gm.boundary, gm.agg),
                        !.pc = "drawn"]
    /\ UNCHANGED <<cpf, ld, mn, xr, ag, gh, ch, tb, sf, dg, tu, ft, rc, cl>>

\* mapa_estado_rj l.212-256
mapa_estado_rj ==
    /\ gm.pc = "call" /\ gm.fn = "rj"
    /\ gm' = [gm EXCEPT !.joined = MergeRj(gm.boundary, gm.agg), !.pc = "drawn"]
    /\ UNCHANGED <<cpf, ld, mn, xr, ag, gh, ch, tb, sf, dg, tu, ft, rc, cl>>

\* mapa_ras_capital l.320-364
mapa_ras_capital ==
    /\ gm.pc = "call" /\ gm.fn = "ras"
    /\ gm' = [gm EXCEPT !.joined = MergeRas(gm.boundary, gm.agg, gm.other_match),
                        !.pc = "drawn"]
    /\ UNCHANGED <<cpf, ld, mn, xr, ag, gh, ch, tb, sf, dg, tu, ft, rc, cl>>

GmNext == mapa_brasil \/ mapa_estado_rj \/ mapa_ras_capital

(***************************************************************************)
(* analise_demografica: the distribution by gender                         *)
(***************************************************************************)
MaxGeneroRows == 2

NaoInformado == LabelCell("Não informado")

\* l.42-50: the dictionary of the salutations
mapa_genero(s) ==
    CASE s \in {LabelCell("Mr"), LabelCell("Sr"), LabelCell("Sr.")} -> LabelCell("Masculino")
      [] s \in {LabelCell("Ms"), LabelCell("Sra"), LabelCell("Sra.")} -> LabelCell("Feminino")
      [] s = LabelCell("- no TDL data available -") -> NaoInformado
      [] OTHER -> NaNLabel

\* l.52: .map(mapa_genero).fillna("Não informado")
GeneroWithoutFillna(s) == mapa_genero(s)

Genero(s) == IF mapa_genero(s) = NaNLabel THEN NaoInformado ELSE mapa_genero(s)

\* l.51-57: the tickets by gender
GeneroCount(df_b) ==
    GroupSum([i \in DOMAIN df_b |->
                 [genero |-> Genero(df_b[i].salutation), tickets |-> df_b[i].tickets]],
             "genero")

Salutations ==
    {LabelCell("Mr"), LabelCell("Sra."), LabelCell("- no TDL data available -"),
     LabelCell("Dr"), NaNLabel}

GeneroRows == {[salutation |-> s, tickets |-> n] : s \in Salutations, n \in {1, 2}}

DgIdle == [df_b |-> <<>>, genero_count |-> <<>>, pc |-> "idle"]

DgStart ==
    {[DgIdle EXCEPT !.df_b = t, !.pc = "call"] :
        t \in SeqsUpTo(GeneroRows, MaxGeneroRows)}

\* analise_demografica l.38-57
analise_demografica_genero ==
    /\ dg.pc = "call"
    /\ dg' = [dg EXCEPT !.genero_count = GeneroCount(dg.df_b), !.pc = "shown"]
    /\ UNCHANGED <<cpf, ld, mn, xr, ag, gh, ch, tb, sf, gm, tu, ft, rc, cl>>

\* the filters change: the chart is drawn again over another filtered table
rerun_genero ==
    /\ dg.pc = "shown"
    /\ \E t \in SeqsUpTo(GeneroRows, MaxGeneroRows) :
          dg' = [dg EXCEPT !.df_b = t, !.genero_count = <<>>, !.pc = "call"]
    /\ UNCHANGED <<cpf, ld, mn, xr, ag, gh, ch, tb, sf, gm, tu, ft, rc, cl>>

DgNext == analise_demografica_genero \/ rerun_genero

(***************************************************************************)
(* analise_turismo_por_periodo: classificar_origem                         *)
(***************************************************************************)
\* a word in upper case, from its letters
UpperWord(letters) ==
    [i \in DOMAIN letters |->
        IF letters[i] = " " THEN Blank ELSE Ch(letters[i], TRUE, FALSE)]

\* a word with a capital first letter
TitleWord(letters) ==
    [i \in DOMAIN letters |->
        IF letters[i] = " " THEN Blank ELSE Ch(letters[i], i = 1, FALSE)]

\* l.252: the spellings of the country that mean Brazil
BrazilNames ==
    {UpperWord(<<"b", "r", "a", "z", "i", "l">>),
     UpperWord(<<"b", "r", "a", "s", "i", "l">>), UpperWord(<<"b", "r">>)}

\* l.258: the spellings of the state of Rio de Janeiro
RioNames ==
    {UpperWord(<<"r", "j">>),
     UpperWord(<<"r", "i", "o", " ", "d", "e", " ", "j", "a", "n", "e", "i", "r", "o">>)}

\* row.get(col, default): the default only when the row has no such column
RowGet(cell, default) == IF cell = NoColumn THEN default ELSE cell

\* pd.isna(x) or x == ""
NaOrEmpty(c) == IsNull(c) \/ c = StrCell(<<>>)

\* l.245-261
classificar_origem(row) ==
    LET estado == RowGet(row.uf_google, RowGet(row.state, StrCell(<<>>)))
        pais == RowGet(row.country, StrCell(<<>>))
    IN IF NaOrEmpty(pais) THEN "Não informado"
       ELSE IF StrUpper(pais.s) \notin BrazilNames THEN "Internacional"
       ELSE IF NaOrEmpty(estado) THEN "Brasil - Estado não informado"
       ELSE IF StrUpper(estado.s) \in RioNames THEN "Rio de Janeiro"
       ELSE "Outros Estados (Brasil)"

WordRJ == UpperWord(<<"r", "j">>)

WordSP == UpperWord(<<"s", "p">>)

UfCells ==
    {NoColumn, NaNCell, StrCell(<<>>), StrCell(WordRJ), StrCell(StrLower(WordRJ)),
     StrCell(WordSP)}

StateCells ==
    {NoColumn, NaNCell, StrCell(WordRJ), StrCell(WordSP),
     StrCell(TitleWord(<<"r", "i", "o", " ", "d", "e", " ", "j", "a", "n", "e", "i", "r", "o">>))}

CountryCells ==
    {NoColumn, NaNCell, StrCell(<<>>), StrCell(UpperWord(<<"b", "r">>)),
     StrCell(TitleWord(<<"b", "r", "a", "z", "i", "l">>)),
     StrCell(TitleWord(<<"p", "e", "r", "u">>))}

TuIdle ==
    [uf_google |-> NoColumn, state |-> NoColumn, country |-> NoColumn,
     origem |-> "", pc |-> "idle"]

TuStart ==
    {[TuIdle EXCEPT !.uf_google = u, !.state = s, !.country = c, !.pc = "call"] :
        u \in UfCells, s \in StateCells, c \in CountryCells}

\* df_analise.apply(classificar_origem, axis=1) of l.264, on one row
apply_classificar_origem ==
    /\ tu.pc = "call"
    /\ tu' = [tu EXCEPT !.origem = classificar_origem(tu), !.pc = "classified"]
    /\ UNCHANGED <<cpf, ld, mn, xr, ag, gh, ch, tb, sf, gm, dg, ft, rc, cl>>

TuNext == apply_classificar_origem

(***************************************************************************)
(* main: the filters of the ticketing tab                                  *)
(***************************************************************************)
MaxFilterRows == 2

Timestamp(day, late) == [k |-> "ts", day |-> day, late |-> late]

NaTStamp == [k |-> "nat", day |-> 0, late |-> FALSE]

\* pd.to_datetime(d) of a datetime.date: midnight of that day
ToDatetimeOfDate(d) == Timestamp(d, FALSE)

\* a <= b on timestamps; False when one of them is NaT
StampLeq(a, b) ==
    /\ a.k = "ts" /\ b.k = "ts"
    /\ \/ a.day < b.day
       \/ a.day = b.day /\ (b.late \/ ~a.late)

\* l.577-578: if evento_sel: df_b[df_b["TDL Event"].isin(evento_sel)]
FilterByEventoAlways(df, evento_sel) ==
    SelectSeq(df, LAMBDA r : r.event \in evento_sel)

FilterByEvento(df, evento_sel) ==
    IF evento_sel = {} THEN df ELSE SelectSeq(df, LAMBDA r : r.event \in evento_sel)

\* l.580-585: the rows between midnight of ini and midnight of fim, when
\* periodo is a pair
FilterByPeriodo(df, periodo) ==
    IF Len(periodo) # 2 THEN df
    ELSE SelectSeq(df, LAMBDA r :
            /\ StampLeq(ToDatetimeOfDate(periodo[1]), r.date)
            /\ StampLeq(r.date, ToDatetimeOfDate(periodo[2])))

\* l.587-588
FilterByPais(df, pais_sel) ==
    IF pais_sel = {} THEN df ELSE SelectSeq(df, LAMBDA r : r.pais \in pais_sel)

\* l.574-588: the filters in the order of the code
ApplyTicketFilters(bilhetes, evento_sel, periodo, pais_sel) ==
    FilterByPais(FilterByPeriodo(FilterByEvento(bilhetes, evento_sel), periodo),
                 pais_sel)

\* l.529, 563: sorted(col.dropna().unique())
EventoChoices(bilhetes) == {bilhetes[i].event : i \in DOMAIN bilhetes} \ {NaNLabel}

PaisChoices(bilhetes) == {bilhetes[i].pais : i \in DOMAIN bilhetes} \ {NaNLabel}

EventDaysOf(bilhetes) ==
    {bilhetes[i].date.day : i \in {j \in DOMAIN bilhetes : bilhetes[j].date.k = "ts"}}

MinDay(bilhetes) ==
    CHOOSE d \in EventDaysOf(bilhetes) : \A e \in EventDaysOf(bilhetes) : d <= e

MaxDay(bilhetes) ==
    CHOOSE d \in EventDaysOf(bilhetes) : \A e \in EventDaysOf(bilhetes) : e <= d

\* l.533-541: the value of the date input before the user touches it; the
\* widget keeps the dates of data_min and data_max, not their time of day
DefaultPeriodo(bilhetes) ==
    IF EventDaysOf(bilhetes) = {} THEN <<>>
    ELSE <<MinDay(bilhetes), MaxDay(bilhetes)>>

\* l.533-543: what the date input can return
PeriodoChoices(bilhetes) ==
    IF EventDaysOf(bilhetes) = {} THEN {<<>>}
    ELSE LET days == MinDay(bilhetes)..MaxDay(bilhetes)
         IN {<<d>> : d \in days}
            \cup {p \in days \X days : p[1] <= p[2]}

\* l.604, 1120-1121: the total of tickets and the rows of the table shown
HeadlineTotals(df) == [total_ingressos |-> SumTickets(df), rows |-> Len(df)]

FilterDates ==
    {NaTStamp, Timestamp(1, FALSE), Timestamp(1, TRUE), Timestamp(2, FALSE)}

FilterRows ==
    {[event |-> e, date |-> d, pais |-> p, tickets |-> 1] :
        e \in {LabelCell("A"), LabelCell("B")}, d \in FilterDates,
        p \in {LabelCell("Brazil"), NaNLabel}}

FtIdle ==
    [bilhetes |-> <<>>, evento_sel |-> {}, pais_sel |-> {}, periodo |-> <<>>,
     df_b |-> <<>>, pc |-> "idle"]

FtStart ==
    {[FtIdle EXCEPT !.bilhetes = t, !.pc = "loaded"] :
        t \in SeqsUpTo(FilterRows, MaxFilterRows)}

\* main l.528-599 under one state of the widgets
main_filters ==
    /\ ft.pc = "loaded"
    /\ \E evento_sel \in SUBSET EventoChoices(ft.bilhetes),
          pais_sel \in SUBSET PaisChoices(ft.bilhetes),
          periodo \in PeriodoChoices(ft.bilhetes) :
          ft' = [ft EXCEPT !.evento_sel = evento_sel, !.pais_sel = pais_sel,
                           !.periodo = periodo,
                           !.df_b = ApplyTicketFilters(ft.bilhetes, evento_sel,
                                                       periodo, pais_sel),
                           !.pc = "filtered"]
    /\ UNCHANGED <<cpf, ld, mn, xr, ag, gh, ch, tb, sf, gm, dg, tu, rc, cl>>

\* the user changes a widget: Streamlit runs main again
rerun_filters ==
    /\ ft.pc = "filtered"
    /\ ft' = [ft EXCEPT !.evento_sel = {}, !.pais_sel = {}, !.periodo = <<>>,
                        !.df_b = <<>>, !.pc = "loaded"]
    /\ UNCHANGED <<cpf, ld, mn, xr, ag, gh, ch, tb, sf, gm, dg, tu, rc, cl>>

FtNext == main_filters \/ rerun_filters

(***************************************************************************)
(* analise_comportamento_compra: customers by number of distinct events    *)
(***************************************************************************)
MaxEvents == 6

\* the text f"{x} evento", f"{x} eventos" or "6+ eventos"
Band(x, suffix) == [x |-> x, suffix |-> suffix]

NaNBand == [x |-> 0, suffix |-> "nan"]

\* l.186-188: the label of a customer with x distinct events
Faixa_Eventos(x) ==
    IF x = 1 THEN Band(x, " evento")
    ELSE IF x <= 5 THEN Band(x, " eventos")
    ELSE Band(6, "+ eventos")

\* l.194: the six categories of the chart
ordem_eventos ==
    {Band(1, " evento"), Band(2, " eventos"), Band(3, " eventos"),
     Band(4, " eventos"), Band(5, " eventos"), Band(6, "+ eventos")}

\* l.195: pd.Categorical(values, categories=ordem_eventos): a value that is
\* no category becomes NaN
Categorical(label) == IF label \in ordem_eventos THEN label ELSE NaNBand

\* l.177-183: groupby(CPF)[event].nunique() over the rows with a tax ID
Eventos_Diferentes(df_b, c) ==
    Cardinality({df_b[i].event : i \in {j \in DOMAIN df_b : df_b[j].cpf = c}}
                \ {NaNLabel})

ClientesOf(df_b) == {df_b[i].cpf : i \in DOMAIN df_b} \ {NaNLabel}

\* l.177-196: the number of customers of each band
DistRecorrencia(df_b) ==
    LET faixa == [c \in ClientesOf(df_b) |->
                     Categorical(Faixa_Eventos(Eventos_Diferentes(df_b, c)))]
    IN [b \in {faixa[c] : c \in ClientesOf(df_b)} |->
           Cardinality({c \in ClientesOf(df_b) : faixa[c] = b})]

\* the rows of one customer: one row for each of n events, and one row
\* without an event
RowsOfCliente(c, n, blank) ==
    [i \in 1..n |-> [cpf |-> c, event |-> IntCell(i)]]
    \o (IF blank THEN <<[cpf |-> c, event |-> NaNLabel]>> ELSE <<>>)

RcTables ==
    {RowsOfCliente(LabelCell("c1"), n1, b1) \o RowsOfCliente(LabelCell("c2"), n2, b2)
        \o RowsOfCliente(NaNLabel, n3, FALSE) :
        n1 \in 0..MaxEvents, n2 \in 0..MaxEvents, n3 \in 0..1,
        b1 \in BOOLEAN, b2 \in BOOLEAN}

RcIdle == [df_b |-> <<>>, dist_recorrencia |-> <<>>, shown |-> FALSE, pc |-> "idle"]

RcStart == {[RcIdle EXCEPT !.df_b = t, !.pc = "call"] : t \in RcTables}

\* l.176-196 with rows to show
analise_recorrencia ==
    /\ rc.pc = "call"
    /\ rc.df_b # <<>>
    /\ rc' = [rc EXCEPT !.dist_recorrencia = DistRecorrencia(rc.df_b),
                        !.shown = TRUE, !.pc = "done"]
    /\ UNCHANGED <<cpf, ld, mn, xr, ag, gh, ch, tb, sf, gm, dg, tu, ft, cl>>

\* l.176: nothing is drawn for an empty table
analise_recorrencia_skips ==
    /\ rc.pc = "call"
    /\ rc.df_b = <<>>
    /\ rc' = [rc EXCEPT !.pc = "done"]
    /\ UNCHANGED <<cpf, ld, mn, xr, ag, gh, ch, tb, sf, gm, dg, tu, ft, cl>>

RcNext == analise_recorrencia \/ analise_recorrencia_skips

(***************************************************************************)
(* analise_clusters_clientes: the number of clusters                       *)
(***************************************************************************)
MaxClientes == 119

\* l.88: the check of insufficient data
DadosInsuficientes(n) == n < 10

\* l.106: range(2, min(11, n // 10))
K_range(n) == 2..(MinOf(11, n \div 10) - 1)

\* l.143-149: the arguments of the slider
NoSlider == [min_value |-> 0, max_value |-> 0, value |-> 0]

SliderArgs(n) ==
    [min_value |-> 2, max_value |-> MinOf(10, n \div 10), value |-> 4]

\* st.slider raises StreamlitAPIException unless min_value <= value <= max_value
SliderRaises(s) == ~(s.min_value <= s.value /\ s.value <= s.max_value)

ClIdle ==
    [n |-> 0, K_range |-> {}, slider |-> NoSlider, n_clusters |-> 0, pc |-> "idle"]

ClStart == {[ClIdle EXCEPT !.n = n, !.pc = "call"] : n \in 0..MaxClientes}

\* l.88-90: st.warning and return
analise_clusters_insuficientes ==
    /\ cl.pc = "call"
    /\ DadosInsuficientes(cl.n)
    /\ cl' = [cl EXCEPT !.pc = "warned"]
    /\ UNCHANGED <<cpf, ld, mn, xr, ag, gh, ch, tb, sf, gm, dg, tu, ft, rc>>

\* l.92-149: the elbow chart is drawn, st.slider raises
analise_clusters_slider_raises ==
    /\ cl.pc = "call"
    /\ ~DadosInsuficientes(cl.n)
    /\ SliderRaises(SliderArgs(cl.n))
    /\ cl' = [cl EXCEPT !.K_range = K_range(cl.n), !.slider = SliderArgs(cl.n),
                        !.pc = "raised"]
    /\ UNCHANGED <<cpf, ld, mn, xr, ag, gh, ch, tb, sf, gm, dg, tu, ft, rc>>

\* l.92-153: the user picks a value of the slider, KMeans is fitted with it
analise_clusters_clientes ==
    /\ cl.pc = "call"
    /\ ~DadosInsuficientes(cl.n)
    /\ ~SliderRaises(SliderArgs(cl.n))
    /\ \E k \in SliderArgs(cl.n).min_value..SliderArgs(cl.n).max_value :
          cl' = [cl EXCEPT !.K_range = K_range(cl.n), !.slider = SliderArgs(cl.n),
                           !.n_clusters = k, !.pc = "clustered"]
    /\ UNCHANGED <<cpf, ld, mn, xr, ag, gh, ch, tb, sf, gm, dg, tu, ft, rc>>

ClNext ==
    \/ analise_clusters_insuficientes
    \/ analise_clusters_slider_raises
    \/ analise_clusters_clientes

(***************************************************************************)
(* Specifications: one per part of the pipeline                            *)
(***************************************************************************)
CpfInit ==
    /\ cpf \in CpfStart
    /\ ld = LdIdle
    /\ mn = MnIdle
    /\ xr = XrIdle
    /\ ag = AgIdle
    /\ gh = GhIdle
    /\ ch = ChIdle
    /\ tb = TbIdle
    /\ sf = SfIdle
    /\ gm = GmIdle
    /\ dg = DgIdle
    /\ tu = TuIdle
    /\ ft = FtIdle
    /\ rc = RcIdle
    /\ cl = ClIdle

SpecCpf == CpfInit /\ [][CpfNext]_vars

LdInit ==
    /\ cpf = CpfIdle
    /\ ld \in LdStart
    /\ mn = MnIdle
    /\ xr = XrIdle
    /\ ag = AgIdle
    /\ gh = GhIdle
    /\ ch = ChIdle
    /\ tb = TbIdle
    /\ sf = SfIdle
    /\ gm = GmIdle
    /\ dg = DgIdle
    /\ tu = TuIdle
    /\ ft = FtIdle
    /\ rc = RcIdle
    /\ cl = ClIdle

SpecLoad == LdInit /\ [][LdNext]_vars

MnInit ==
    /\ cpf = CpfIdle
    /\ ld = LdIdle
    /\ mn \in MnStart
    /\ xr = XrIdle
    /\ ag = AgIdle
    /\ gh = GhIdle
    /\ ch = ChIdle
    /\ tb = TbIdle
    /\ sf = SfIdle
    /\ gm = GmIdle
    /\ dg = DgIdle
    /\ tu = TuIdle
    /\ ft = FtIdle
    /\ rc = RcIdle
    /\ cl = ClIdle

SpecCols == MnInit /\ [][MnNext]_vars

XrInit ==
    /\ cpf = CpfIdle
    /\ ld = LdIdle
    /\ mn = MnIdle
    /\ xr \in XrStart
    /\ ag = AgIdle
    /\ gh = GhIdle
    /\ ch = ChIdle
    /\ tb = TbIdle
    /\ sf = SfIdle
    /\ gm = GmIdle
    /\ dg = DgIdle
    /\ tu = TuIdle
    /\ ft = FtIdle
    /\ rc = RcIdle
    /\ cl = ClIdle

SpecMap == XrInit /\ [][XrNext]_vars

AgInit ==
    /\ cpf = CpfIdle
    /\ ld = LdIdle
    /\ mn = MnIdle
    /\ xr = XrIdle
    /\ ag \in AgStart
    /\ gh = GhIdle
    /\ ch = ChIdle
    /\ tb = TbIdle
    /\ sf = SfIdle
    /\ gm = GmIdle
    /\ dg = DgIdle
    /\ tu = TuIdle
    /\ ft = FtIdle
    /\ rc = RcIdle
    /\ cl = ClIdle

SpecAgg == AgInit /\ [][AgNext]_vars

GhInit ==
    /\ cpf = CpfIdle
    /\ ld = LdIdle
    /\ mn = MnIdle
    /\ xr = XrIdle
    /\ ag = AgIdle
    /\ gh \in GhStart
    /\ ch = ChIdle
    /\ tb = TbIdle
    /\ sf = SfIdle
    /\ gm = GmIdle
    /\ dg = DgIdle
    /\ tu = TuIdle
    /\ ft = FtIdle
    /\ rc = RcIdle
    /\ cl = ClIdle

SpecFetch == GhInit /\ [][GhNext]_vars

ChInit ==
    /\ cpf = CpfIdle
    /\ ld = LdIdle
    /\ mn = MnIdle
    /\ xr = XrIdle
    /\ ag = AgIdle
    /\ gh = GhIdle
    /\ ch \in ChStart
    /\ tb = TbIdle
    /\ sf = SfIdle
    /\ gm = GmIdle
    /\ dg = DgIdle
    /\ tu = TuIdle
    /\ ft = FtIdle
    /\ rc = RcIdle
    /\ cl = ClIdle

SpecSession == ChInit /\ [][ChNext]_vars

TbInit ==
    /\ cpf = CpfIdle
    /\ ld = LdIdle
    /\ mn = MnIdle
    /\ xr = XrIdle
    /\ ag = AgIdle
    /\ gh = GhIdle
    /\ ch = ChIdle
    /\ tb \in TbStart
    /\ sf = SfIdle
    /\ gm = GmIdle
    /\ dg = DgIdle
    /\ tu = TuIdle
    /\ ft = FtIdle
    /\ rc = RcIdle
    /\ cl = ClIdle

SpecValues == TbInit /\ [][TbNext]_vars

SfInit ==
    /\ cpf = CpfIdle
    /\ ld = LdIdle
    /\ mn = MnIdle
    /\ xr = XrIdle
    /\ ag = AgIdle
    /\ gh = GhIdle
    /\ ch = ChIdle
    /\ tb = TbIdle
    /\ sf \in SfStart
    /\ gm = GmIdle
    /\ dg = DgIdle
    /\ tu = TuIdle
    /\ ft = FtIdle
    /\ rc = RcIdle
    /\ cl = ClIdle

SpecStaff == SfInit /\ [][SfNext]_vars

GmInit ==
    /\ cpf = CpfIdle
    /\ ld = LdIdle
    /\ mn = MnIdle
    /\ xr = XrIdle
    /\ ag = AgIdle
    /\ gh = GhIdle
    /\ ch = ChIdle
    /\ tb = TbIdle
    /\ sf = SfIdle
    /\ gm \in GmStart
    /\ dg = DgIdle
    /\ tu = TuIdle
    /\ ft = FtIdle
    /\ rc = RcIdle
    /\ cl = ClIdle

SpecMaps == GmInit /\ [][GmNext]_vars

DgInit ==
    /\ cpf = CpfIdle
    /\ ld = LdIdle
    /\ mn = MnIdle
    /\ xr = XrIdle
    /\ ag = AgIdle
    /\ gh = GhIdle
    /\ ch = ChIdle
    /\ tb = TbIdle
    /\ sf = SfIdle
    /\ gm = GmIdle
    /\ dg \in DgStart
    /\ tu = TuIdle
    /\ ft = FtIdle
    /\ rc = RcIdle
    /\ cl = ClIdle

SpecGenero == DgInit /\ [][DgNext]_vars

TuInit ==
    /\ cpf = CpfIdle
    /\ ld = LdIdle
    /\ mn = MnIdle
    /\ xr = XrIdle
    /\ ag = AgIdle
    /\ gh = GhIdle
    /\ ch = ChIdle
    /\ tb = TbIdle
    /\ sf = SfIdle
    /\ gm = GmIdle
    /\ dg = DgIdle
    /\ tu \in TuStart
    /\ ft = FtIdle
    /\ rc = RcIdle
    /\ cl = ClIdle

SpecTurismo == TuInit /\ [][TuNext]_vars

FtInit ==
    /\ cpf = CpfIdle
    /\ ld = LdIdle
    /\ mn = MnIdle
    /\ xr = XrIdle
    /\ ag = AgIdle
    /\ gh = GhIdle
    /\ ch = ChIdle
    /\ tb = TbIdle
    /\ sf = SfIdle
    /\ gm = GmIdle
    /\ dg = DgIdle
    /\ tu = TuIdle
    /\ ft \in FtStart
    /\ rc = RcIdle
    /\ cl = ClIdle

SpecFilters == FtInit /\ [][FtNext]_vars

RcInit ==
    /\ cpf = CpfIdle
    /\ ld = LdIdle
    /\ mn = MnIdle
    /\ xr = XrIdle
    /\ ag = AgIdle
    /\ gh = GhIdle
    /\ ch = ChIdle
    /\ tb = TbIdle
    /\ sf = SfIdle
    /\ gm = GmIdle
    /\ dg = DgIdle
    /\ tu = TuIdle
    /\ ft = FtIdle
    /\ rc \in RcStart
    /\ cl = ClIdle

SpecRecorrencia == RcInit /\ [][RcNext]_vars

ClInit ==
    /\ cpf = CpfIdle
    /\ ld = LdIdle
    /\ mn = MnIdle
    /\ xr = XrIdle
    /\ ag = AgIdle
    /\ gh = GhIdle
    /\ ch = ChIdle
    /\ tb = TbIdle
    /\ sf = SfIdle
    /\ gm = GmIdle
    /\ dg = DgIdle
    /\ tu = TuIdle
    /\ ft = FtIdle
    /\ rc = RcIdle
    /\ cl \in ClStart

SpecClusters == ClInit /\ [][ClNext]_vars

(***************************************************************************)
(* Claims on the tax-ID normalization                                      *)
(***************************************************************************)
AllDigits(s) == \A i \in DOMAIN s : s[i] \in Digits

IsNumeric(s) == Len(s) > 0 /\ AllDigits(s)

IsZeroPadded(out, s) ==
    /\ Len(out) = CpfWidth
    /\ \A i \in 1..(CpfWidth - Len(s)) : out[i] = "0"
    /\ \A i \in 1..Len(s) : out[CpfWidth - Len(s) + i] = s[i]

C2_NonNumericUnchanged ==
    cpf.pc = "normalized" =>
        \A i \in DOMAIN cpf.raw :
            (/\ cpf.raw[i].k = "str"
             /\ cpf.raw[i].s \notin CpfSentinels
             /\ (~IsNumeric(cpf.raw[i].s) \/ Len(cpf.raw[i].s) > CpfWidth))
            => cpf.col[i] = cpf.raw[i]

\* C3: normalizing the normalized column again returns the same column: a
\* null stays a true null and an 11-character value is unchanged.
C3_Idempotent ==
    cpf.pc = "renormalized" =>
        /\ cpf.col = cpf.once
        /\ \A i \in DOMAIN cpf.once :
            /\ cpf.once[i].k = "none" => cpf.col[i] = NoneCell
            /\ (cpf.once[i].k = "str" /\ Len(cpf.once[i].s) = CpfWidth) => cpf.col[i] = cpf.once[i]

C3_Witness ==
    /\ cpf.pc = "renormalized"
    /\ \E i, j \in DOMAIN cpf.once :
        /\ cpf.raw[i] = NaNCell
        /\ cpf.once[i] = NoneCell
        /\ cpf.col[i] = NoneCell
        /\ cpf.raw[j].k = "str"
        /\ Len(cpf.raw[j].s) < CpfWidth
        /\ cpf.once[j].k = "str"
        /\ Len(cpf.once[j].s) = CpfWidth
        /\ cpf.col[j] = cpf.once[j]

(***************************************************************************)
(* Claims on the dates and the age brackets of load_data                   *)
(***************************************************************************)
\* C4 (as claimed): load_data never raises on a date; a ticket event date, a
\* birth date or a staffing date that is no date becomes null and load_data
\* returns.
C4_DateParsingNeverRaises ==
    /\ ld.pc # "raised"
    /\ ld.pc = "loaded" =>
        /\ ld.eventRaw.k = "text" => ld.event = NaT
        /\ ld.birthRaw.k = "text" => ld.birth = NaT
        /\ ld.dataRaw.k = "text" => ld.data = NaT

\* the bracket of the half-open intervals [0,18), [18,25), ..., [65,inf)
HalfOpenLabel(a) ==
    IF a >= AgeBins[Len(AgeLabels)] THEN AgeLabels[Len(AgeLabels)]
    ELSE AgeLabels[CHOOSE i \in 1..(Len(AgeLabels) - 1) : AgeBins[i] <= a /\ a < AgeBins[i + 1]]

\* C5 (as claimed): every age a >= 0 is labelled with the bracket whose
\* half-open interval [lower, upper) holds a, "65+" having no upper limit.
C5_HalfOpenBrackets ==
    (ld.pc = "loaded" /\ ld.idade.k = "int" /\ ld.idade.v >= 0)
        => ld.faixa = LabelCell(HalfOpenLabel(ld.idade.v))

(***************************************************************************)
(* Claims on missing columns                                               *)
(***************************************************************************)
\* C6 (as claimed): whatever expected columns are missing from the ticketing
\* or the staffing table, load_data followed by main never aborts.
C6_MissingColumnNeverAborts == mn.pc # "aborted"

(***************************************************************************)
(* Claims on the event-by-date cross-reference                             *)
(***************************************************************************)
\* C7: mapping the staffing dates keeps every staffing row in its place; a
\* row whose date is a key of the date -> event map gets the event of that
\* key, a row whose date is no key gets a null event.
C7_AnnotationKeepsRows ==
    xr.pc = "annotated" =>
        /\ Len(xr.cred) = Len(xr.credData)
        /\ \A i \in DOMAIN xr.credData :
            /\ xr.cred[i].data = xr.credData[i]
            /\ xr.credData[i] \in DOMAIN xr.mapa => xr.cred[i].evento = xr.mapa[xr.credData[i]]
            /\ xr.credData[i] \notin DOMAIN xr.mapa => xr.cred[i].evento = NaNLabel

C7_Witness ==
    /\ xr.pc = "annotated"
    /\ \E i, j \in DOMAIN xr.cred :
        /\ xr.cred[i].data = DateCell(1)
        /\ xr.cred[i].evento = LabelCell("B")
        /\ xr.cred[j].data = DateCell(3)
        /\ xr.cred[j].evento = NaNLabel

\* the ticket rows that are the first occurrence of their (date, event) pair
FirstOccurrences(rows) == {i \in DOMAIN rows : \A j \in 1..(i - 1) : rows[j] # rows[i]}

\* C8: the date -> event map has exactly the dates of the ticket rows as keys,
\* and the event of a date is the event of the last distinct (date, event)
\* pair of that date, the pairs taken in the order of their first occurrence.
C8_LastDistinctPairWins ==
    xr.pc \in {"mapped", "annotated"} =>
        /\ DOMAIN xr.mapa = {xr.bilhetes[i].date : i \in DOMAIN xr.bilhetes}
        /\ \A d \in DOMAIN xr.mapa :
            \E i \in FirstOccurrences(xr.bilhetes) :
                /\ xr.bilhetes[i].date = d
                /\ \A j \in FirstOccurrences(xr.bilhetes) : xr.bilhetes[j].date = d => j <= i
                /\ xr.mapa[d] = xr.bilhetes[i].event

C8_Witness ==
    /\ xr.pc = "mapped"
    /\ xr.bilhetes = << [date |-> DateCell(1), event |-> LabelCell("A")],
                       [date |-> DateCell(1), event |-> LabelCell("B")],
                       [date |-> DateCell(1), event |-> LabelCell("A")] >>
    /\ xr.mapa[DateCell(1)] = LabelCell("B")

(***************************************************************************)
(* Claims on the percentages                                               *)
(***************************************************************************)
\* the rows of the base table that pass the selection of the "Evento" filter
FilteredIdx ==
    {i \in DOMAIN ag.bilhetes :
        ag.evento_sel = {} \/ ag.bilhetes[i].event \in ag.evento_sel}

\* the ticket total of a set of rows of the base table
TicketsOf(S) == SumFn([i \in S |-> ag.bilhetes[i].tickets])

\* the customers of the filtered rows
FilteredCustomers == {ag.bilhetes[i].cpf : i \in FilteredIdx} \ {NaNLabel}

PctUses(part, total, scale) ==
    \A g \in DOMAIN part.groups :
        part.groups[g].pct = Percentual(part.groups[g].qty, total, scale)

\* C9: after every run of main the denominator of each percentage is a total
\* over the filtered rows: the unique customers of the filtered rows for the
\* recurring share, the tickets of the filtered rows that have an event for
\* the ranking, the tickets of the filtered rows of the chosen event that
\* have a ticket type for the pie, the customers of the filtered rows that
\* fall in a band for the bands; never a total over the whole table.
C9_FilteredDenominators ==
    ag.pc = "shown" =>
        /\ ag.recorrentes.den = Cardinality(FilteredCustomers)
        /\ ag.recorrentes.den > 0 =>
            PctUses(ag.recorrentes, Cardinality(FilteredCustomers), 10)
        /\ ag.ranking.shown =>
            LET total == TicketsOf({i \in FilteredIdx : ag.bilhetes[i].event # NaNLabel})
            IN ag.ranking.den = total /\ PctUses(ag.ranking, total, 10)
        /\ ag.pizza.shown =>
            LET total == TicketsOf({i \in FilteredIdx :
                            /\ ag.bilhetes[i].tipo # NaNLabel
                            /\ (ag.pizza_sel = "Todos os eventos"
                                \/ ag.bilhetes[i].event = LabelCell(ag.pizza_sel))})
            IN ag.pizza.den = total /\ PctUses(ag.pizza, total, 100)
        /\ ag.faixas.shown =>
            LET total == Cardinality({c \in FilteredCustomers :
                            TicketsOf({i \in FilteredIdx : ag.bilhetes[i].cpf = c}) > 0})
            IN ag.faixas.den = total /\ PctUses(ag.faixas, total, 10)

C9_Witness ==
    /\ ag.pc = "shown"
    /\ ag.evento_sel = {EvA}
    /\ ag.ranking.shown
    /\ ag.ranking.den = 1
    /\ ag.ranking.groups[EvA].pct = NumCell(1000)
    /\ SumTickets(ag.bilhetes) = 3

PctSum(part) == SumFn([g \in DOMAIN part.groups |-> part.groups[g].pct.v])

\* the percentages of one dimension are numbers whose sum is 100 within half
\* a unit of the last decimal per group
SumsTo100(part, scale) ==
    /\ \A g \in DOMAIN part.groups : part.groups[g].pct.k = "num"
    /\ LET diff == PctSum(part) - 100 * scale
           n == Cardinality(DOMAIN part.groups)
       IN 2 * diff <= n /\ -2 * diff <= n

Shows(part) == part.shown /\ DOMAIN part.groups # {}

ZeroOnZero(cell, den) == cell.k = "num" /\ (den = 0 => cell.v = 0)

PctZeroOnZero(part) ==
    \A g \in DOMAIN part.groups : ZeroOnZero(part.groups[g].pct, part.den)

\* C11: after every run of main over a filtered table that has rows, each
\* division of the aggregation stage gives a number, and zero when its
\* denominator is zero: the tickets per customer,
\* the average ticket price and the recurring share of the headline metrics,
\* the percentage and the average ticket price of each event of the ranking,
\* and the percentages of the ticket types, of the bands and of the age
\* brackets.
C11_DivisionByZeroYieldsZero ==
    (ag.pc = "shown" /\ ag.df_b # <<>>) =>
        /\ ZeroOnZero(ag.metricas.media_ingressos_por_cpf, ag.metricas.total_clientes)
        /\ ZeroOnZero(ag.metricas.ticket_medio, ag.metricas.total_ingressos)
        /\ ZeroOnZero(ag.metricas.perc_recorrentes, ag.metricas.total_clientes)
        /\ PctZeroOnZero(ag.ranking)
        /\ \A g \in DOMAIN ag.ranking.groups :
                ZeroOnZero(ag.ranking.groups[g].medio, ag.ranking.groups[g].qty)
        /\ PctZeroOnZero(ag.pizza)
        /\ PctZeroOnZero(ag.faixas)
        /\ PctZeroOnZero(ag.idades)

(***************************************************************************)
(* C12: the empty filtered table                                           *)
(***************************************************************************)
AllPctAreNumbers(part) ==
    \A g \in DOMAIN part.groups : part.groups[g].pct.k = "num"

\* C12: after a run of main whose filtered table is empty, the headline
\* counts are zero, no chart shows a value that is not a number, and every
\* display of the page has shown an informational empty-state message.
C12_EmptyTableShowsEmptyState ==
    (ag.pc = "shown" /\ ag.df_b = <<>>) =>
        /\ ag.metricas.total_ingressos = 0
        /\ ag.metricas.total_clientes = 0
        /\ ag.metricas.qtd_recorrentes = 0
        /\ AllPctAreNumbers(ag.ranking) /\ AllPctAreNumbers(ag.pizza)
        /\ AllPctAreNumbers(ag.faixas) /\ AllPctAreNumbers(ag.idades)
        /\ ag.info = Displays

(***************************************************************************)
(* C13: the headline metrics                                               *)
(***************************************************************************)
\* the non-null tax IDs of a table
CustomersOf(df) == {df[i].cpf : i \in DOMAIN df} \ {NaNLabel}

\* the non-null events of the rows of one customer
EventsOfCustomer(df, c) ==
    {df[i].event : i \in {j \in DOMAIN df : df[j].cpf = c}} \ {NaNLabel}

\* C13: after every run of main the unique customers are the distinct
\* non-null tax IDs of the filtered rows, the total tickets are the sum of
\* the ticket counts of the filtered rows, and the recurring customers are
\* the tax IDs that occur with more than one distinct event.
C13_HeadlineMetrics ==
    ag.pc = "shown" =>
        /\ ag.metricas.total_clientes = Cardinality(CustomersOf(ag.df_b))
        /\ ag.metricas.total_ingressos =
                SumFn([i \in DOMAIN ag.df_b |-> ag.df_b[i].tickets])
        /\ ag.metricas.qtd_recorrentes =
                Cardinality({c \in CustomersOf(ag.df_b) :
                                Cardinality(EventsOfCustomer(ag.df_b, c)) > 1})

\* two rows of 2 tickets and a net price of 100 each, of one customer at two
\* events: 1 unique customer, 4 tickets, 1 recurring customer
C13_Witness ==
    /\ ag.pc = "shown"
    /\ Len(ag.df_b) = 2
    /\ ag.df_b[1].cpf = ag.df_b[2].cpf /\ ag.df_b[1].cpf # NaNLabel
    /\ ag.df_b[1].event # ag.df_b[2].event
    /\ \A i \in 1..2 : ag.df_b[i].tickets = 2 /\ ag.df_b[i].net = 100
    /\ ag.metricas.total_clientes = 1
    /\ ag.metricas.total_ingressos = 4
    /\ ag.metricas.qtd_recorrentes = 1

(***************************************************************************)
(* C14: load_file_from_github                                              *)
(***************************************************************************)
\* the request succeeded and the body has at least 100 bytes and starts with
\* the container signature
GoodDownload ==
    /\ gh.response = "ok"
    /\ gh.content.len >= 100
    /\ gh.content.len >= 4 /\ gh.content.head = ZipSignature

ReturnedFileAtStart ==
    /\ gh.pc = "returned"
    /\ gh.file_obj.open /\ gh.file_obj.pos = 0 /\ gh.file_obj.content = gh.content
    /\ gh.errors = <<>>

RaisedAfterReport ==
    /\ gh.pc = "raised"
    /\ gh.file_obj = NoFile
    /\ Len(gh.errors) = 1
    /\ gh.errors[1].url = gh.url
    /\ gh.errors[1].len = gh.content.len
    /\ gh.errors[1].bytes.head = gh.content.head

RaisedWithoutReport ==
    gh.pc = "raised" /\ gh.file_obj = NoFile /\ gh.errors = <<>>

\* C14 (as claimed): once the call has ended it has issued one request, and
\* it has returned a file object at offset 0 exactly when the request
\* succeeded and the body is a container of at least 100 bytes; in every
\* other case it has raised after showing the URL, the length and the leading
\* bytes.
C14_ReturnsOrReportsAndRaises ==
    gh.pc \in {"returned", "raised"} =>
        /\ gh.requests = 1
        /\ IF GoodDownload THEN ReturnedFileAtStart ELSE RaisedAfterReport

\* C14 (amended): the same, but the report is shown only when the request
\* succeeded; a failed request raises with nothing shown.
C14_ReportsOnlyRejectedContent ==
    gh.pc \in {"returned", "raised"} =>
        /\ gh.requests = 1
        /\ IF GoodDownload THEN ReturnedFileAtStart
           ELSE IF gh.response = "ok" THEN RaisedAfterReport
           ELSE RaisedWithoutReport

\* a body that starts with the signature and is one byte too short is
\* reported and refused
C14_Witness ==
    /\ gh.pc = "raised"
    /\ gh.response = "ok"
    /\ gh.content.len = 99
    /\ gh.content.head = ZipSignature
    /\ RaisedAfterReport

(***************************************************************************)
(* C15: the cache of load_data                                             *)
(***************************************************************************)
\* C15: at the end of every run of main the run has used the tables of the
\* files the remote repository holds now, and the body of load_data has run
\* at most once for each version of the files, with three requests a time.
C15_LoadedOncePerSource ==
    ch.pc = "shown" =>
        /\ ch.start = load_data(ch.source)
        /\ ch.loads <= ch.source
        /\ ch.requests = ch.loads * RequestsPerLoad

(***************************************************************************)
(* C16: the cached tables are not changed by a run                         *)
(***************************************************************************)
RowsAmong(small, big) ==
    \A i \in DOMAIN small : \E j \in DOMAIN big : small[i] = big[j]

\* C16: the entry of the cache always holds the tables as load_data produced
\* them, and every run of main starts from these tables and ends with tables
\* that have the same rows, the same base columns and only new columns added;
\* the filtered table holds rows of the base table only.
C16_BaseTablesUnchanged ==
    /\ ch.cache.key # "" => ch.cache.value = load_data(ch.cache.value.version)
    /\ ch.runs > 0 =>
        /\ ch.start = ch.cache.value
        /\ ch.bilhetes.rows = ch.start.bilhetes.rows
        /\ ch.start.bilhetes.cols \subseteq ch.bilhetes.cols
        /\ ch.cred.rows = ch.start.cred.rows
        /\ ch.start.cred.cols \subseteq ch.cred.cols
        /\ RowsAmong(ch.df_b.rows, ch.start.bilhetes.rows)
        /\ RowsAmong(ch.df_c.rows, ch.start.cred.rows)

\* a second run that filtered the rows and added the weekday columns to its
\* tables, while the entry still has the columns load_data gave it
C16_Witness ==
    /\ ch.runs >= 2
    /\ ch.loads = 1
    /\ ch.evento_sel = {"A"}
    /\ Len(ch.df_b.rows) = 1
    /\ "dia_semana" \in ch.cred.cols
    /\ "dia_semana_label" \in ch.bilhetes.cols
    /\ "dia_semana" \notin ch.cache.value.cred.cols

(***************************************************************************)
(* C17: missing tax IDs of the ticketing table are nulls                   *)
(***************************************************************************)
\* a cell that holds no tax ID: blank, or one of the four texts
IsMissing(c) == IsNull(c) \/ c.s \in {TxtNan, TxtNone, TxtNaN, TxtEmpty}

\* C17: after load_data no tax-ID cell of the ticketing table holds the text
\* 'nan', 'None', 'NaN' or the empty text, and every cell that was read
\* without a tax ID is None.
C17_MissingCpfIsNull ==
    (cpf.pc = "normalized" /\ cpf.table = "bilhetes") =>
        \A i \in DOMAIN cpf.col :
            /\ ~(cpf.col[i].k = "str" /\ cpf.col[i].s \in {TxtNan, TxtNone, TxtNaN, TxtEmpty})
            /\ IsMissing(cpf.raw[i]) => cpf.col[i] = NoneCell

\* a column read with a blank cell and with the text 'None', both None after
\* load_data
C17_Witness ==
    /\ cpf.pc = "normalized" /\ cpf.table = "bilhetes"
    /\ Len(cpf.raw) = 2
    /\ cpf.raw[1] = NaNCell /\ cpf.raw[2] = StrCell(TxtNone)
    /\ cpf.col[1] = NoneCell /\ cpf.col[2] = NoneCell

(***************************************************************************)
(* C18: ticket counts and net prices are not negative                      *)
(***************************************************************************)
\* C18: in the ticketing table load_data returns, no row has a negative
\* ticket count and no row has a negative net price.
C18_NoNegativeValues ==
    tb.pc = "loaded" =>
        \A i \in DOMAIN tb.bilhetes :
            tb.bilhetes[i].tickets >= 0 /\ tb.bilhetes[i].net >= 0

(***************************************************************************)
(* C19: the category of a staffing record                                  *)
(***************************************************************************)
IsBlank(c) == c.k # "str" \/ c.s = TxtEmpty

\* C19: every staffing record load_data returns has a category that is a
\* non-empty text, and a record read with a blank category has the category
\* 'ARTISTIC'.
C19_CategoryDefaulted ==
    tb.pc = "loaded" =>
        LET raw == ConcatSheets(tb.cred_2025, tb.desm_2024)
        IN \A i \in DOMAIN tb.cred :
            /\ ~IsBlank(tb.cred[i].categoria)
            /\ IsBlank(raw[i].categoria) => tb.cred[i].categoria = StrCell(TxtArtistic)

(***************************************************************************)
(* C20: the person identifier of a staffing record                         *)
(***************************************************************************)
\* C20: load_data returns one staffing record for each row of the two
\* sheets, and every record has a person identifier that is not null.
C20_PersonIdNeverNull ==
    tb.pc = "loaded" =>
        /\ Len(tb.cred) = Len(tb.cred_2025) + Len(tb.desm_2024)
        /\ \A i \in DOMAIN tb.cred : ~IsNull(PersonId(tb.cred[i]))

(***************************************************************************)
(* C21: one unified row per non-empty role of a two-role roster            *)
(***************************************************************************)
NonEmptyCell(c) == c.k = "str" /\ c.s # <<>>

SheetRowsRead == sf.cred_2025.rows \o sf.desm_2024.rows

RoleAssignments(rows) ==
    Cardinality({i \in DOMAIN rows : NonEmptyCell(rows[i].funcao1)})
    + Cardinality({i \in DOMAIN rows : NonEmptyCell(rows[i].funcao2)})

\* C21: the unified table has one row per non-empty role-1 cell plus one per
\* non-empty role-2 cell of the rows read, so a row with both roles blank
\* gives no row and a row with one role gives exactly one row
C21_OneRowPerRole ==
    sf.pc \in {"loaded", "shown"} =>
        Len(sf.cred) = RoleAssignments(SheetRowsRead)

(***************************************************************************)
(* C22: the origin tag and the rows of the unified staffing table          *)
(***************************************************************************)
SameCells(out, in) ==
    /\ IsNull(in.categoria) \/ out.categoria = in.categoria
    /\ IsNull(in.funcao1) \/ out.funcao1 = in.funcao1
    /\ IsNull(in.funcao2) \/ out.funcao2 = in.funcao2

\* C22: every row of the unified staffing table has the tag of the sheet it
\* comes from ("2025" for GERAL 2025, "Desmontagem 2024" for the teardown
\* sheet), and the table holds the rows of the first sheet followed by the
\* rows of the second, each once
C22_TaggedRowsOfBothSheets ==
    sf.pc \in {"loaded", "shown"} =>
        LET n1 == Len(sf.cred_2025.rows)
            n2 == Len(sf.desm_2024.rows)
        IN /\ Len(sf.cred) = n1 + n2
           /\ \A i \in 1..n1 :
                 /\ sf.cred[i].origem = "2025"
                 /\ SameCells(sf.cred[i], sf.cred_2025.rows[i])
           /\ \A i \in 1..n2 :
                 /\ sf.cred[n1 + i].origem = "Desmontagem 2024"
                 /\ SameCells(sf.cred[n1 + i], sf.desm_2024.rows[i])

C22_Witness ==
    /\ sf.pc = "loaded"
    /\ sf.cred_2025.rows # <<>>
    /\ sf.desm_2024.rows # <<>>
    /\ sf.cred[1].categoria # sf.cred[2].categoria

(***************************************************************************)
(* C26: the total of a sheet without a QTD column                          *)
(***************************************************************************)
SheetOf(tag) == IF tag = "2025" THEN sf.cred_2025 ELSE sf.desm_2024

\* C26: when every row shown comes from a sheet that has no QTD column,
\* "Total de credenciamentos" is the number of rows shown, whatever the
\* filters are
C26_TotalIsRowCountWithoutQtd ==
    sf.pc = "shown" =>
        /\ \A i \in DOMAIN sf.cred :
              ~SheetOf(sf.cred[i].origem).has_qtd => sf.cred[i].qtd = NumCell(1)
        /\ (\A i \in DOMAIN sf.df_c : ~SheetOf(sf.df_c[i].origem).has_qtd)
              => sf.total = Len(sf.df_c)

C26_Witness ==
    /\ sf.pc = "shown"
    /\ ~sf.cred_2025.has_qtd
    /\ sf.desm_2024.has_qtd
    /\ sf.desm_2024.rows # <<>>
    /\ sf.origem_sel = {"2025"}
    /\ sf.total = 1

(***************************************************************************)
(* C23: the names of the three maps are joined up to case, blanks and      *)
(* diacritics                                                              *)
(***************************************************************************)
SameNameUpToSpelling(a, b) ==
    StrStrip(StrUpper(remover_acentos(a))) = StrStrip(StrUpper(remover_acentos(b)))

\* C23: in each of the three map functions, an aggregated name and a
\* boundary name that differ only by letter case, surrounding blanks or
\* diacritics are joined to the same polygon
C23_JoinedUpToCaseSpaceAccents ==
    (gm.pc = "drawn" /\ SameNameUpToSpelling(gm.agg, gm.boundary)) => gm.joined

\* the same statement for the map of the state of Rio de Janeiro alone
C23_RjJoinedUpToSpelling ==
    (gm.pc = "drawn" /\ gm.fn = "rj" /\ SameNameUpToSpelling(gm.agg, gm.boundary))
        => gm.joined

(***************************************************************************)
(* C24: the gender groups cover the filtered table                         *)
(***************************************************************************)
RecognisedSalutations ==
    {LabelCell("Mr"), LabelCell("Sr"), LabelCell("Sr."),
     LabelCell("Ms"), LabelCell("Sra"), LabelCell("Sra.")}

QuantidadeOf(g) ==
    IF g \in DOMAIN dg.genero_count THEN dg.genero_count[g] ELSE 0

\* C24: the tickets of the rows whose salutation is blank or not recognised
\* are counted under "Não informado", so the quantities of the gender groups
\* add up to the tickets of the filtered table
C24_GenderGroupsSumToTotal ==
    dg.pc = "shown" =>
        /\ QuantidadeOf(NaoInformado)
              = SumTickets(SelectSeq(dg.df_b,
                    LAMBDA r : r.salutation \notin RecognisedSalutations))
        /\ SumFn(dg.genero_count) = SumTickets(dg.df_b)

C24_Witness ==
    /\ dg.pc = "shown"
    /\ \E i, j \in DOMAIN dg.df_b :
          /\ dg.df_b[i].salutation = NaNLabel
          /\ dg.df_b[j].salutation = LabelCell("Dr")
    /\ QuantidadeOf(NaoInformado) > 2

(***************************************************************************)
(* C25: the state of a row comes from uf_google, else from the declared    *)
(* state                                                                   *)
(***************************************************************************)
IsBrazil(c) == c.k = "str" /\ StrUpper(c.s) \in BrazilNames

IsRio(c) == c.k = "str" /\ StrUpper(c.s) \in RioNames

\* C25: a row of Brazil whose uf_google is missing (no such column, a blank
\* cell or an empty text) and whose declared state is RJ is classified
\* "Rio de Janeiro", not "Brasil - Estado não informado"
C25_DeclaredStateUsedWhenUfMissing ==
    (/\ tu.pc = "classified"
     /\ IsBrazil(tu.country)
     /\ tu.uf_google = NoColumn \/ NaOrEmpty(tu.uf_google)
     /\ IsRio(tu.state))
        => tu.origem = "Rio de Janeiro"

\* the fallback the code has: the declared state is read when the table has
\* no uf_google column
C25_DeclaredStateUsedWhenNoUfColumn ==
    (/\ tu.pc = "classified"
     /\ IsBrazil(tu.country)
     /\ tu.uf_google = NoColumn
     /\ IsRio(tu.state))
        => tu.origem = "Rio de Janeiro"

(***************************************************************************)
(* C27: the ticket filters are a conjunction                               *)
(***************************************************************************)
InPeriodo(r) ==
    /\ StampLeq(ToDatetimeOfDate(ft.periodo[1]), r.date)
    /\ StampLeq(r.date, ToDatetimeOfDate(ft.periodo[2]))

Satisfies(r) ==
    /\ ft.evento_sel = {} \/ r.event \in ft.evento_sel
    /\ ft.pais_sel = {} \/ r.pais \in ft.pais_sel
    /\ Len(ft.periodo) = 2 => InPeriodo(r)

FilterNo(n, df) ==
    CASE n = 1 -> FilterByEvento(df, ft.evento_sel)
      [] n = 2 -> FilterByPeriodo(df, ft.periodo)
      [] OTHER -> FilterByPais(df, ft.pais_sel)

FilterOrders == {o \in [1..3 -> 1..3] : {o[i] : i \in 1..3} = 1..3}

\* C27: the filtered table is the rows of the base table, in their order,
\* that satisfy every multiselect with a choice and the date range; a
\* multiselect without a choice restricts nothing, and the result is the
\* same whatever the order in which the filters are applied
C27_FiltersAreConjunction ==
    ft.pc = "filtered" =>
        /\ ft.df_b = SelectSeq(ft.bilhetes, Satisfies)
        /\ \A o \in FilterOrders :
              FilterNo(o[3], FilterNo(o[2], FilterNo(o[1], ft.bilhetes))) = ft.df_b

C27_Witness ==
    /\ ft.pc = "filtered"
    /\ ft.evento_sel # {} /\ ft.pais_sel = {} /\ Len(ft.periodo) = 2
    /\ Len(ft.bilhetes) = 2
    /\ Len(ft.df_b) = 1
    /\ ft.bilhetes[1].event = ft.bilhetes[2].event

(***************************************************************************)
(* C28: the filters at rest keep the whole table                           *)
(***************************************************************************)
FiltersAtRest ==
    /\ ft.pc = "filtered"
    /\ ft.evento_sel = {} /\ ft.pais_sel = {}
    /\ ft.periodo = DefaultPeriodo(ft.bilhetes)

\* C28: with no choice in any multiselect and the period at its default
\* (the first to the last event date), the filtered table holds every row
\* of the base table, so the headline totals are those of the whole table
C28_DefaultFiltersKeepAllRows ==
    FiltersAtRest =>
        /\ ft.df_b = ft.bilhetes
        /\ HeadlineTotals(ft.df_b) = HeadlineTotals(ft.bilhetes)

(***************************************************************************)
(* C29: the six recurrence bands cover the customers                       *)
(***************************************************************************)
ClientesInBands ==
    SumFn([b \in DOMAIN rc.dist_recorrencia \cap ordem_eventos |->
              rc.dist_recorrencia[b]])

\* C29: every customer of the recurrence chart is in exactly one of the six
\* bands "1 evento" to "6+ eventos", so the customers of the six bands add
\* up to the number of distinct non-null tax IDs of the filtered table
C29_BandsCoverCustomers ==
    (rc.pc = "done" /\ rc.shown) =>
        /\ DOMAIN rc.dist_recorrencia \subseteq ordem_eventos
        /\ ClientesInBands = Cardinality(ClientesOf(rc.df_b))

\* the same statement for the tables in which every row has an event
C29_BandsCoverCustomersWithEvents ==
    (/\ rc.pc = "done" /\ rc.shown
     /\ \A i \in DOMAIN rc.df_b : rc.df_b[i].event # NaNLabel)
        => /\ DOMAIN rc.dist_recorrencia \subseteq ordem_eventos
           /\ ClientesInBands = Cardinality(ClientesOf(rc.df_b))

(***************************************************************************)
(* C30: the slider of the number of clusters                               *)
(***************************************************************************)
\* C30: whenever the check of insufficient data passes (10 customers or
\* more after the outlier removal) the slider is well formed, minimum 2 <=
\* default 4 <= maximum min(10, n div 10), and no number of clusters handed
\* to K-means is above the number of customers
C30_SliderWellFormed ==
    (cl.pc \in {"raised", "clustered"}) =>
        /\ cl.slider.min_value <= cl.slider.value
        /\ cl.slider.value <= cl.slider.max_value
        /\ \A k \in cl.K_range \cup ({cl.n_clusters} \ {0}) : k <= cl.n

\* the part of the statement on K-means: no fit has more clusters than
\* customers
C30_ClustersWithinCustomers ==
    (cl.pc \in {"raised", "clustered"}) =>
        \A k \in cl.K_range \cup ({cl.n_clusters} \ {0}) : k <= cl.n

====
